---- MODULE Spec2Model ----
(***************************************************************************)
(* Monitoring-FYP: the collector's ingest handler with its metric alert    *)
(* state machine (monitoringAgent.py), the Linux agent's journal           *)
(* correlator and polling loop (agent_linux.py) and the Windows agent's    *)
(* log file tail, event log source and polling loop (win11agent.py).       *)
(*                                                                         *)
(* Percentages are modelled as integers (whole percent); the thresholds    *)
(* and the resend delta keep their source values.                          *)
(***************************************************************************)
EXTENDS Integers, Sequences, FiniteSets, TLC

VARIABLES
    \* ---- collector: committed content of telemetry.db ----
    metric_state,   \* table metric_state: function (host,kind) -> row, DOMAIN = existing rows
    events,         \* table events: sequence of alert rows in insertion order
    metrics,        \* table metrics: sequence of snapshot rows
    dbLock,         \* holder of SQLite's write lock (0 = free)
    now,            \* collector clock (datetime.utcnow())
    \* ---- collector: one request thread per worker ----
    pc,             \* position of each worker inside ingest()
    req,            \* the payload the worker is serving
    kindIx,         \* which handle_metric call (1..3) the worker is in
    prev,           \* handle_metric's locals prev_status / prev_value
    tx,             \* the worker's open transaction: uncommitted writes
    nreq,           \* number of requests received so far
    evals,          \* history: committed evaluations (host, kind, value, what was read,
                    \* emitted and written, payload shape) in order
    \* ---- linux agent ----
    LAST_AUTH_USERNAME,
    LAST_AUTH_IP,
    ssh_lines,
    logind_lines,
    seen_raw,
    seen_sessions,
    saw_sshd_logout,
    auth_events,    \* the list `events` built by parse_journalctl_events
    apc,            \* position inside parse_journalctl_events
    lineIx,         \* loop index into ssh_lines / logind_lines
    nwin,           \* number of collection windows started
    hist,           \* history: the identity known when the window started, then the
                    \* login records classified by the sshd loop in this window
    \* ---- linux agent: main loop ----
    journal,        \* the systemd journal: entries [t, src, line] in order of arrival
    clock,          \* wall clock in seconds (datetime.now())
    last_checked_time,
    down,           \* the journal sources whose query fails at present
    failed_raw,     \* history: raw lines of the events whose submission failed
    \* ---- windows agent: sshd log file tail ----
    log_file,       \* the file at the monitored path: [exists, bytes]
    state_file,     \* content of STATE_FILE (NoOffset = the file does not exist)
    written,        \* number of bytes ever written to the path
    nfiles,         \* number of files that have existed at the path
    polls,          \* number of read_file_new_lines calls
    returned,       \* the last call: [ok, chunk, lines]
    delivered,      \* history: the chunks read by the successful calls, concatenated
    \* ---- classification of one line by both agents ----
    msg,            \* the line, as the sequence of phrases it is made of
    kinds,          \* what agent_linux and win11agent make of it
    \* ---- windows agent: OpenSSH/Operational event log and main loop ----
    SEEN_OPENSSH_RECORDS,
    event_log,      \* the channel's records [rid, t, message] in order of arrival
    LAST_CHECKED_UTC,
    poll_start,
    wclock,         \* wall clock of the Windows host
    wpc,            \* position inside main's loop body
    win_events,     \* auth_events of the current poll
    emitted_ids     \* history: RecordId of every auth event ever built

cvars == <<metric_state, events, metrics, dbLock, now, pc, req, kindIx, prev, tx, nreq, evals>>
avars == <<LAST_AUTH_USERNAME, LAST_AUTH_IP, ssh_lines, logind_lines, seen_raw,
           seen_sessions, saw_sshd_logout, auth_events, apc, lineIx, nwin, hist>>
mvars == <<journal, clock, last_checked_time, down, failed_raw>>
tvars == <<log_file, state_file, written, nfiles, polls, returned, delivered>>
kvars == <<msg, kinds>>
wvars == <<SEEN_OPENSSH_RECORDS, event_log, LAST_CHECKED_UTC, poll_start, wclock, wpc,
           win_events, emitted_ids>>
vars == <<cvars, avars, mvars, tvars, kvars, wvars>>

(***************************************************************************)
(* Bounds                                                                  *)
(***************************************************************************)
NumWorkers == 2
MaxRequests == 2
MaxSeqRequests == 5
MaxWindows == 2
MaxSshLines == 2
MaxLogindLines == 1
MaxSessionLines == 2
MaxBytes == 3
MaxPolls == 3
MaxFiles == 2
MaxJournal == 2
MaxPhrases == 3
MaxRecords == 2
MaxWinPolls == 2
MaxBatchRequests == 3

Workers == 1..NumWorkers

(***************************************************************************)
(* Collector configuration (monitoringAgent.py)                            *)
(***************************************************************************)
CPU_TH == 80
MEM_TH == 80
DISK_TH == 80
METRIC_DELTA_RESEND == 5

LOCAL_TI == {"10.10.1.5", "10.10.1.6", "10.10.1.10"}

Hosts == {"h1", "h2"}
KindSeq == <<"cpu", "mem", "disk">>
Kinds == {"cpu", "mem", "disk"}
Pairs == Hosts \X Kinds

Threshold(kind) ==
    CASE kind = "cpu"  -> CPU_TH
      [] kind = "mem"  -> MEM_TH
      [] kind = "disk" -> DISK_TH

\* str.upper() on the kind names
Upper(kind) ==
    CASE kind = "cpu"  -> "CPU"
      [] kind = "mem"  -> "MEM"
      [] kind = "disk" -> "DISK"

\* Python's None for last_value / prev_value, and a present float
NoneVal == [isNone |-> TRUE, v |-> 0]
Some(x) == [isNone |-> FALSE, v |-> x]

Abs(x) == IF x < 0 THEN -x ELSE x

\* a JSON value of the payload: a number, or something float() rejects
Num(x) == [num |-> TRUE, v |-> x]
BadNum == [num |-> FALSE, v |-> 0]

\* float("nan"), which float() accepts: it compares false with every number.
\* handle_metric compares a fresh value only in `value >= threshold`, so NaN
\* is modelled as a value below every percentage
NaN == 0 - 1

\* _f(x, default=0.0)
F(x) == IF x.num THEN x.v ELSE 0

\* sqlite3 binds a float parameter that is NaN as NULL
Bind(last_value) == IF (~last_value.isNone) /\ last_value.v = NaN THEN NoneVal ELSE last_value

(***************************************************************************)
(* Rows                                                                    *)
(***************************************************************************)
\* a row of metric_state (the key (host,kind) is the function argument)
StateRow(status, last_value, ts) ==
    [status |-> status, last_value |-> last_value, updated_ts |-> ts]

\* a row of events; src/kind/text/value/tag are the parts of `message`
Alert(host, level, src, kind, text, value, tag) ==
    [host |-> host, level |-> level, src |-> src, kind |-> kind,
     text |-> text, value |-> value, tag |-> tag]

MetricAlert(host, level, kind, text, value) ==
    Alert(host, level, "metric", Upper(kind), text, value, "")

\* a row of metrics
Snapshot(host, cpu, mem, disk) == [host |-> host, cpu |-> cpu, mem |-> mem, disk |-> disk]

\* an open transaction with nothing written yet
NoState == [p \in {} |-> 0]
FreshTx == [state |-> NoState, events |-> <<>>, metrics |-> <<>>, evals |-> <<>>]

(***************************************************************************)
(* _get_metric_state / _set_metric_state / handle_metric                   *)
(***************************************************************************)
\* what a SELECT on metric_state sees inside worker w's connection:
\* its own uncommitted writes first, then the committed table
RowVisible(w, pair) == pair \in DOMAIN tx[w].state \/ pair \in DOMAIN metric_state
VisibleRow(w, pair) ==
    IF pair \in DOMAIN tx[w].state THEN tx[w].state[pair] ELSE metric_state[pair]

_get_metric_state(w, host, kind) ==
    IF ~RowVisible(w, <<host, kind>>)
    THEN [status |-> "normal", last_value |-> NoneVal]
    ELSE [status |-> VisibleRow(w, <<host, kind>>).status,
          last_value |-> VisibleRow(w, <<host, kind>>).last_value]

\* an update whose WHERE clause names the host only: the write reaches every
\* row of the host
_set_metric_state_wholeHost(st, host, kind, status, last_value, ts) ==
    [p \in (DOMAIN st) \cup {<<host, kind>>} |->
        IF p[1] = host THEN StateRow(status, Bind(last_value), ts) ELSE st[p]]

\* INSERT ... ON CONFLICT(host,kind) DO UPDATE: one row per key, overwritten
_set_metric_state(st, host, kind, status, last_value, ts) ==
    [p \in (DOMAIN st) \cup {<<host, kind>>} |->
        IF p = <<host, kind>> THEN StateRow(status, Bind(last_value), ts) ELSE st[p]]

\* handle_metric with is_high = value > threshold
handle_metric_strictThreshold(prev_status, prev_value, host, kind, value, threshold) ==
    LET is_high == value > threshold IN
    IF is_high /\ prev_status # "high" THEN
        [emit |-> <<MetricAlert(host, "critical", kind, "high on", value)>>,
         set  |-> <<[status |-> "high", last_value |-> Some(value)]>>]
    ELSE IF is_high /\ prev_status = "high" THEN
        IF prev_value.isNone \/ Abs(value - prev_value.v) >= METRIC_DELTA_RESEND THEN
            [emit |-> <<MetricAlert(host, "critical", kind, "still high", value)>>,
             set  |-> <<[status |-> "high", last_value |-> Some(value)]>>]
        ELSE
            [emit |-> <<>>, set |-> <<>>]
    ELSE IF (~is_high) /\ prev_status = "high" THEN
        [emit |-> <<MetricAlert(host, "info", kind, "back to normal", value)>>,
         set  |-> <<[status |-> "normal", last_value |-> Some(value)]>>]
    ELSE
        [emit |-> <<>>,
         set  |-> <<[status |-> "normal", last_value |-> Some(value)]>>]

\* handle_metric whose recovery branch keeps the old last_value
handle_metric_keepLastOnRecovery(prev_status, prev_value, host, kind, value, threshold) ==
    LET is_high == value >= threshold IN
    IF is_high /\ prev_status # "high" THEN
        [emit |-> <<MetricAlert(host, "critical", kind, "high on", value)>>,
         set  |-> <<[status |-> "high", last_value |-> Some(value)]>>]
    ELSE IF is_high /\ prev_status = "high" THEN
        IF prev_value.isNone \/ Abs(value - prev_value.v) >= METRIC_DELTA_RESEND THEN
            [emit |-> <<MetricAlert(host, "critical", kind, "still high", value)>>,
             set  |-> <<[status |-> "high", last_value |-> Some(value)]>>]
        ELSE
            [emit |-> <<>>, set |-> <<>>]
    ELSE IF (~is_high) /\ prev_status = "high" THEN
        [emit |-> <<MetricAlert(host, "info", kind, "back to normal", value)>>,
         set  |-> <<[status |-> "normal", last_value |-> prev_value]>>]
    ELSE
        [emit |-> <<>>,
         set  |-> <<[status |-> "normal", last_value |-> Some(value)]>>]

\* handle_metric resending only when the drift exceeds METRIC_DELTA_RESEND
handle_metric_strictDelta(prev_status, prev_value, host, kind, value, threshold) ==
    LET is_high == value >= threshold IN
    IF is_high /\ prev_status # "high" THEN
        [emit |-> <<MetricAlert(host, "critical", kind, "high on", value)>>,
         set  |-> <<[status |-> "high", last_value |-> Some(value)]>>]
    ELSE IF is_high /\ prev_status = "high" THEN
        IF prev_value.isNone \/ Abs(value - prev_value.v) > METRIC_DELTA_RESEND THEN
            [emit |-> <<MetricAlert(host, "critical", kind, "still high", value)>>,
             set  |-> <<[status |-> "high", last_value |-> Some(value)]>>]
        ELSE
            [emit |-> <<>>, set |-> <<>>]
    ELSE IF (~is_high) /\ prev_status = "high" THEN
        [emit |-> <<MetricAlert(host, "info", kind, "back to normal", value)>>,
         set  |-> <<[status |-> "normal", last_value |-> Some(value)]>>]
    ELSE
        [emit |-> <<>>,
         set  |-> <<[status |-> "normal", last_value |-> Some(value)]>>]

\* handle_metric rewriting the row (same values, new updated_ts) when nothing is resent
handle_metric_touch(prev_status, prev_value, host, kind, value, threshold) ==
    LET is_high == value >= threshold IN
    IF is_high /\ prev_status # "high" THEN
        [emit |-> <<MetricAlert(host, "critical", kind, "high on", value)>>,
         set  |-> <<[status |-> "high", last_value |-> Some(value)]>>]
    ELSE IF is_high /\ prev_status = "high" THEN
        IF prev_value.isNone \/ Abs(value - prev_value.v) >= METRIC_DELTA_RESEND THEN
            [emit |-> <<MetricAlert(host, "critical", kind, "still high", value)>>,
             set  |-> <<[status |-> "high", last_value |-> Some(value)]>>]
        ELSE
            [emit |-> <<>>, set |-> <<[status |-> "high", last_value |-> prev_value]>>]
    ELSE IF (~is_high) /\ prev_status = "high" THEN
        [emit |-> <<MetricAlert(host, "info", kind, "back to normal", value)>>,
         set  |-> <<[status |-> "normal", last_value |-> Some(value)]>>]
    ELSE
        [emit |-> <<>>,
         set  |-> <<[status |-> "normal", last_value |-> Some(value)]>>]

\* handle_metric resending on every evaluation made while high
handle_metric_resendAlways(prev_status, prev_value, host, kind, value, threshold) ==
    LET is_high == value >= threshold IN
    IF is_high /\ prev_status # "high" THEN
        [emit |-> <<MetricAlert(host, "critical", kind, "high on", value)>>,
         set  |-> <<[status |-> "high", last_value |-> Some(value)]>>]
    ELSE IF is_high /\ prev_status = "high" THEN
        IF TRUE THEN
            [emit |-> <<MetricAlert(host, "critical", kind, "still high", value)>>,
             set  |-> <<[status |-> "high", last_value |-> Some(value)]>>]
        ELSE
            [emit |-> <<>>, set |-> <<>>]
    ELSE IF (~is_high) /\ prev_status = "high" THEN
        [emit |-> <<MetricAlert(host, "info", kind, "back to normal", value)>>,
         set  |-> <<[status |-> "normal", last_value |-> Some(value)]>>]
    ELSE
        [emit |-> <<>>,
         set  |-> <<[status |-> "normal", last_value |-> Some(value)]>>]

\* handle_metric emitting the recovery notice on every evaluation below the threshold
handle_metric_recoverAlways(prev_status, prev_value, host, kind, value, threshold) ==
    LET is_high == value >= threshold IN
    IF is_high /\ prev_status # "high" THEN
        [emit |-> <<MetricAlert(host, "critical", kind, "high on", value)>>,
         set  |-> <<[status |-> "high", last_value |-> Some(value)]>>]
    ELSE IF is_high /\ prev_status = "high" THEN
        IF prev_value.isNone \/ Abs(value - prev_value.v) >= METRIC_DELTA_RESEND THEN
            [emit |-> <<MetricAlert(host, "critical", kind, "still high", value)>>,
             set  |-> <<[status |-> "high", last_value |-> Some(value)]>>]
        ELSE
            [emit |-> <<>>, set |-> <<>>]
    ELSE IF (~is_high) THEN
        [emit |-> <<MetricAlert(host, "info", kind, "back to normal", value)>>,
         set  |-> <<[status |-> "normal", last_value |-> Some(value)]>>]
    ELSE
        [emit |-> <<>>,
         set  |-> <<[status |-> "normal", last_value |-> Some(value)]>>]

\* handle_metric storing the observed value when nothing is resent
handle_metric_storeAlways(prev_status, prev_value, host, kind, value, threshold) ==
    LET is_high == value >= threshold IN
    IF is_high /\ prev_status # "high" THEN
        [emit |-> <<MetricAlert(host, "critical", kind, "high on", value)>>,
         set  |-> <<[status |-> "high", last_value |-> Some(value)]>>]
    ELSE IF is_high /\ prev_status = "high" THEN
        IF prev_value.isNone \/ Abs(value - prev_value.v) >= METRIC_DELTA_RESEND THEN
            [emit |-> <<MetricAlert(host, "critical", kind, "still high", value)>>,
             set  |-> <<[status |-> "high", last_value |-> Some(value)]>>]
        ELSE
            [emit |-> <<>>, set |-> <<[status |-> "high", last_value |-> Some(value)]>>]
    ELSE IF (~is_high) /\ prev_status = "high" THEN
        [emit |-> <<MetricAlert(host, "info", kind, "back to normal", value)>>,
         set  |-> <<[status |-> "normal", last_value |-> Some(value)]>>]
    ELSE
        [emit |-> <<>>,
         set  |-> <<[status |-> "normal", last_value |-> Some(value)]>>]

\* a handle_metric that writes the row only when it has something to report
handle_metric_rowOnAlert(prev_status, prev_value, host, kind, value, threshold) ==
    LET is_high == value >= threshold IN
    IF is_high /\ prev_status # "high" THEN
        [emit |-> <<MetricAlert(host, "critical", kind, "high on", value)>>,
         set  |-> <<[status |-> "high", last_value |-> Some(value)]>>]
    ELSE IF is_high /\ prev_status = "high" THEN
        IF prev_value.isNone \/ Abs(value - prev_value.v) >= METRIC_DELTA_RESEND THEN
            [emit |-> <<MetricAlert(host, "critical", kind, "still high", value)>>,
             set  |-> <<[status |-> "high", last_value |-> Some(value)]>>]
        ELSE
            [emit |-> <<>>, set |-> <<>>]
    ELSE IF (~is_high) /\ prev_status = "high" THEN
        [emit |-> <<MetricAlert(host, "info", kind, "back to normal", value)>>,
         set  |-> <<[status |-> "normal", last_value |-> Some(value)]>>]
    ELSE
        [emit |-> <<>>, set |-> <<>>]

\* handle_metric as a function of what it read: the alerts it inserts and
\* the state write it performs (set = <<>> when the row is not touched)
handle_metric(prev_status, prev_value, host, kind, value, threshold) ==
    LET is_high == value >= threshold IN
    IF is_high /\ prev_status # "high" THEN
        [emit |-> <<MetricAlert(host, "critical", kind, "high on", value)>>,
         set  |-> <<[status |-> "high", last_value |-> Some(value)]>>]
    ELSE IF is_high /\ prev_status = "high" THEN
        IF prev_value.isNone \/ Abs(value - prev_value.v) >= METRIC_DELTA_RESEND THEN
            [emit |-> <<MetricAlert(host, "critical", kind, "still high", value)>>,
             set  |-> <<[status |-> "high", last_value |-> Some(value)]>>]
        ELSE
            [emit |-> <<>>, set |-> <<>>]
    ELSE IF (~is_high) /\ prev_status = "high" THEN
        [emit |-> <<MetricAlert(host, "info", kind, "back to normal", value)>>,
         set  |-> <<[status |-> "normal", last_value |-> Some(value)]>>]
    ELSE
        [emit |-> <<>>,
         set  |-> <<[status |-> "normal", last_value |-> Some(value)]>>]

(***************************************************************************)
(* Auth event mapping of ingest() (nested payload shape)                   *)
(***************************************************************************)
\* an element of payload["auth_events"]; wf = FALSE is an element that is
\* not a JSON object, on which evt.get raises
AuthEvt(type, src_ip) == [wf |-> TRUE, type |-> type, src_ip |-> src_ip]
Malformed == [wf |-> FALSE, type |-> "", src_ip |-> ""]

AuthLevel(etype) ==
    CASE etype = "successful_login" -> "critical"
      [] etype = "failed_login"     -> "warning"
      [] etype = "logout"           -> "warning"
      [] OTHER                      -> "info"

AuthVerb(etype) ==
    CASE etype = "successful_login" -> "Successful SSH login"
      [] etype = "failed_login"     -> "Failed SSH login"
      [] etype = "logout"           -> "SSH logout"
      [] OTHER                      -> "Auth event"

\* (evt.get("src_ip") or "unknown")
AttackerIp(evt) == IF evt.src_ip = "" THEN "unknown" ELSE evt.src_ip

StatusTag(ip) == IF ip \in LOCAL_TI THEN "(Local)" ELSE "(TI)"

AuthAlert(host, evt) ==
    Alert(host, AuthLevel(evt.type), "auth", evt.type, AuthVerb(evt.type), 0,
          StatusTag(AttackerIp(evt)))

RECURSIVE MapAuthEvents(_, _)
\* the for-loop over auth_events: events with an empty type are skipped
MapAuthEvents(host, evts) ==
    IF evts = <<>> THEN <<>>
    ELSE IF Head(evts).type = "" THEN MapAuthEvents(host, Tail(evts))
    ELSE <<AuthAlert(host, Head(evts))>> \o MapAuthEvents(host, Tail(evts))

AllWellFormed(evts) == \A i \in 1..Len(evts) : evts[i].wf

(***************************************************************************)
(* ingest(): one request, served by worker thread w                        *)
(***************************************************************************)
Payload(key_ok, shape, host, cpu, mem, disk, auth, evt_msg) ==
    [key_ok |-> key_ok, shape |-> shape, host |-> host,
     cpu |-> cpu, mem |-> mem, disk |-> disk, auth |-> auth, evt_msg |-> evt_msg]

NoPayload == Payload(FALSE, "none", "h1", Num(0), Num(0), Num(0), <<>>, "")

\* a flat branch that reads the disk value under the nested shape's name
MetricValue_flatDiskName(p, kind) ==
    CASE kind = "cpu"  -> F(p.cpu)
      [] kind = "mem"  -> F(p.mem)
      [] kind = "disk" -> IF p.shape = "flat" THEN 0 ELSE F(p.disk)

\* the value handed to the kindIx-th handle_metric call
MetricValue(p, kind) ==
    CASE kind = "cpu"  -> F(p.cpu)
      [] kind = "mem"  -> F(p.mem)
      [] kind = "disk" -> F(p.disk)

\* a database whose writers do not exclude each other
LockAvailable_none(w) == TRUE

\* SQLite lets a connection start writing only when no other connection
\* holds the write lock
LockAvailable(w) == dbLock = 0

\* a handler without the key check
Authorized_anyone(p) == TRUE

\* request.headers.get("X-API-Key") == API_KEY
Authorized(p) == p.key_ok

\* X-API-Key differs from API_KEY: 401, nothing is opened or written
RejectUnauthorized(w, p) ==
    /\ pc[w] = "idle"
    /\ ~Authorized(p)
    /\ nreq' = nreq + 1
    /\ now' = now + 1
    /\ UNCHANGED <<metric_state, events, metrics, dbLock, pc, req, kindIx, prev, tx, evals>>
    /\ UNCHANGED <<avars, mvars, tvars, kvars, wvars>>

\* the request passes the key check and the fields are read from the payload
Accept(w, p) ==
    /\ pc[w] = "idle"
    /\ Authorized(p)
    /\ nreq' = nreq + 1
    /\ now' = now + 1
    /\ req' = [req EXCEPT ![w] = p]
    /\ pc' = [pc EXCEPT ![w] = "insert"]
    /\ tx' = [tx EXCEPT ![w] = FreshTx]
    /\ UNCHANGED <<metric_state, events, metrics, dbLock, kindIx, prev, evals>>
    /\ UNCHANGED <<avars, mvars, tvars, kvars, wvars>>

\* cur.execute("INSERT INTO metrics ..."): the first statement of the
\* connection; sqlite3 opens the transaction and takes the write lock,
\* which is held until commit or until the connection is dropped
InsertMetrics(w) ==
    /\ pc[w] = "insert"
    /\ LockAvailable(w)
    /\ dbLock' = w
    /\ tx' = [tx EXCEPT ![w].metrics =
                <<Snapshot(req[w].host, F(req[w].cpu), F(req[w].mem), F(req[w].disk))>>]
    /\ kindIx' = [kindIx EXCEPT ![w] = 1]
    /\ pc' = [pc EXCEPT ![w] = "hm_get"]
    /\ UNCHANGED <<metric_state, events, metrics, now, req, prev, nreq, evals>>
    /\ UNCHANGED <<avars, mvars, tvars, kvars, wvars>>

\* the write lock stays taken for longer than the connection's busy timeout:
\* the INSERT raises OperationalError and the request ends without any write
InsertBusy(w) ==
    /\ pc[w] = "insert"
    /\ dbLock \notin {0, w}
    /\ pc' = [pc EXCEPT ![w] = "idle"]
    /\ tx' = [tx EXCEPT ![w] = FreshTx]
    /\ UNCHANGED <<metric_state, events, metrics, dbLock, now, req, kindIx, prev, nreq, evals>>
    /\ UNCHANGED <<avars, mvars, tvars, kvars, wvars>>

\* handle_metric, first statement: prev_status, prev_value = _get_metric_state(...)
HmGet(w) ==
    /\ pc[w] = "hm_get"
    /\ prev' = [prev EXCEPT ![w] = _get_metric_state(w, req[w].host, KindSeq[kindIx[w]])]
    /\ pc' = [pc EXCEPT ![w] = "hm_decide"]
    /\ UNCHANGED <<metric_state, events, metrics, dbLock, now, req, kindIx, tx, nreq, evals>>
    /\ UNCHANGED <<avars, mvars, tvars, kvars, wvars>>

\* handle_metric, the rest: the branch taken on (is_high, prev_status) with
\* its INSERT INTO events and its _set_metric_state, inside w's transaction
HmDecide(w) ==
    /\ pc[w] = "hm_decide"
    /\ LET host  == req[w].host
           kind  == KindSeq[kindIx[w]]
           value == MetricValue(req[w], kind)
           r     == handle_metric(prev[w].status, prev[w].last_value, host, kind,
                                  value, Threshold(kind))
       IN  tx' = [tx EXCEPT
                    ![w].events = @ \o r.emit,
                    ![w].state  = IF r.set = <<>> THEN @
                                  ELSE _set_metric_state(@, host, kind, r.set[1].status,
                                                         r.set[1].last_value, now),
                    ![w].evals  = Append(@, [host |-> host, kind |-> kind, value |-> value,
                                             emit |-> IF r.emit = <<>> THEN ""
                                                      ELSE r.emit[1].text,
                                             shape |-> req[w].shape,
                                             prev |-> prev[w], set |-> r.set])]
    /\ IF kindIx[w] < Len(KindSeq)
       THEN /\ kindIx' = [kindIx EXCEPT ![w] = @ + 1]
            /\ pc' = [pc EXCEPT ![w] = "hm_get"]
       ELSE /\ kindIx' = kindIx
            /\ pc' = [pc EXCEPT ![w] = "tail"]
    /\ UNCHANGED <<metric_state, events, metrics, dbLock, now, req, prev, nreq, evals>>
    /\ UNCHANGED <<avars, mvars, tvars, kvars, wvars>>

\* nested shape: the loop over payload["auth_events"], every element a JSON object
AuthEvents(w) ==
    /\ pc[w] = "tail"
    /\ req[w].shape = "meta"
    /\ AllWellFormed(req[w].auth)
    /\ tx' = [tx EXCEPT ![w].events = @ \o MapAuthEvents(req[w].host, req[w].auth)]
    /\ pc' = [pc EXCEPT ![w] = "commit"]
    /\ UNCHANGED <<metric_state, events, metrics, dbLock, now, req, kindIx, prev, nreq, evals>>
    /\ UNCHANGED <<avars, mvars, tvars, kvars, wvars>>

\* a connection in autocommit mode: what was written before the exception stays
AuthEventsRaise_keepsWrites(w) ==
    /\ pc[w] = "tail"
    /\ req[w].shape = "meta"
    /\ ~AllWellFormed(req[w].auth)
    /\ metrics' = metrics \o tx[w].metrics
    /\ events' = events \o tx[w].events
    /\ metric_state' = [p \in (DOMAIN metric_state) \cup (DOMAIN tx[w].state) |->
                           IF p \in DOMAIN tx[w].state THEN tx[w].state[p]
                           ELSE metric_state[p]]
    /\ tx' = [tx EXCEPT ![w] = FreshTx]
    /\ dbLock' = 0
    /\ pc' = [pc EXCEPT ![w] = "idle"]
    /\ UNCHANGED <<now, req, kindIx, prev, nreq, evals>>
    /\ UNCHANGED <<avars, mvars, tvars, kvars, wvars>>

\* nested shape: evt.get raises on an element that is not an object; nothing
\* catches it, the request ends with an error and the connection is dropped
\* without commit, so its transaction is rolled back and the lock released
AuthEventsRaise(w) ==
    /\ pc[w] = "tail"
    /\ req[w].shape = "meta"
    /\ ~AllWellFormed(req[w].auth)
    /\ tx' = [tx EXCEPT ![w] = FreshTx]
    /\ dbLock' = 0
    /\ pc' = [pc EXCEPT ![w] = "idle"]
    /\ UNCHANGED <<metric_state, events, metrics, now, req, kindIx, prev, nreq, evals>>
    /\ UNCHANGED <<avars, mvars, tvars, kvars, wvars>>

\* flat shape: the optional event_msg row
FlatEvent(w) ==
    /\ pc[w] = "tail"
    /\ req[w].shape = "flat"
    /\ tx' = [tx EXCEPT ![w].events =
                IF req[w].evt_msg # ""
                THEN Append(@, Alert(req[w].host, "info", "flat", "", req[w].evt_msg, 0, ""))
                ELSE @]
    /\ pc' = [pc EXCEPT ![w] = "commit"]
    /\ UNCHANGED <<metric_state, events, metrics, dbLock, now, req, kindIx, prev, nreq, evals>>
    /\ UNCHANGED <<avars, mvars, tvars, kvars, wvars>>

\* con.commit(); con.close(): the transaction's writes reach the tables
Commit(w) ==
    /\ pc[w] = "commit"
    /\ metrics' = metrics \o tx[w].metrics
    /\ events' = events \o tx[w].events
    /\ metric_state' = [p \in (DOMAIN metric_state) \cup (DOMAIN tx[w].state) |->
                           IF p \in DOMAIN tx[w].state THEN tx[w].state[p]
                           ELSE metric_state[p]]
    /\ evals' = evals \o tx[w].evals
    /\ dbLock' = IF dbLock = w THEN 0 ELSE dbLock
    /\ tx' = [tx EXCEPT ![w] = FreshTx]
    /\ pc' = [pc EXCEPT ![w] = "idle"]
    /\ UNCHANGED <<now, req, kindIx, prev, nreq>>
    /\ UNCHANGED <<avars, mvars, tvars, kvars, wvars>>

(***************************************************************************)
(* Linux agent: log lines                                                  *)
(*                                                                         *)
(* A journal line is a sequence of word tokens; the first token stands for *)
(* the line's timestamp/pid prefix.  Substring tests and regular           *)
(* expressions of the source are evaluated on the tokens.                  *)
(***************************************************************************)
NoStr == ""     \* Python's None for an absent username / IP / session id

IpTokens == {"10.0.0.5", "10.0.0.7", "10.0.0.9", "0.0.0.0", "127.0.0.1"}
DigitTokens == {"22", "42", "43"}

\* str.lower() on one token
LowerTok(t) ==
    CASE t = "Failed"       -> "failed"
      [] t = "Accepted"     -> "accepted"
      [] t = "Invalid"      -> "invalid"
      [] t = "Received"     -> "received"
      [] t = "Disconnected" -> "disconnected"
      [] t = "Connection"   -> "connection"
      [] t = "Session"      -> "session"
      [] t = "Removed"      -> "removed"
      [] t = "New"          -> "new"
      [] t = "Server"       -> "server"
      [] OTHER              -> t

Lower(line) == [i \in 1..Len(line) |-> LowerTok(line[i])]

\* pat occurs in line starting at position i
OccursAt(line, i, pat) ==
    /\ i + Len(pat) - 1 <= Len(line)
    /\ \A j \in 1..Len(pat) : line[i + j - 1] = pat[j]

\* `pat in line`
Contains(line, pat) == \E i \in 1..Len(line) : OccursAt(line, i, pat)

\* re.search(pre (\S+) post, line): the captured token of the leftmost match
Matches(line, pre, post) ==
    {i \in 1..Len(line) : /\ OccursAt(line, i, pre)
                          /\ i + Len(pre) <= Len(line)
                          /\ OccursAt(line, i + Len(pre) + 1, post)}

Min(S) == CHOOSE x \in S : \A y \in S : x <= y

Capture(line, pre, post) == line[Min(Matches(line, pre, post)) + Len(pre)]

UserPatterns ==
    << [pre |-> <<"Failed", "password", "for", "invalid", "user">>, post |-> <<>>],
       [pre |-> <<"Failed", "password", "for">>,                    post |-> <<"from">>],
       [pre |-> <<"Accepted", "password", "for">>,                  post |-> <<"from">>],
       [pre |-> <<"session", "opened", "for", "user">>,             post |-> <<>>],
       [pre |-> <<"session", "closed", "for", "user">>,             post |-> <<>>],
       [pre |-> <<"for", "user">>,                                  post |-> <<>>] >>

\* extract_username: the first pattern (in list order) that matches wins
extract_username(line) ==
    LET hits == {k \in 1..Len(UserPatterns) :
                    Matches(line, UserPatterns[k].pre, UserPatterns[k].post) # {}}
    IN  IF hits = {} THEN NoStr
        ELSE Capture(line, UserPatterns[Min(hits)].pre, UserPatterns[Min(hits)].post)

\* extract_ip: the first dotted-quad shaped token of the line
extract_ip(line) ==
    LET hits == {i \in 1..Len(line) : line[i] \in IpTokens}
    IN  IF hits = {} THEN NoStr ELSE line[Min(hits)]

\* a chain whose last branch takes any line with an address for a failed login
Classify_addressIsFailed(line) ==
    LET lower == Lower(line) IN
    IF Contains(lower, <<"failed", "password">>) \/ Contains(lower, <<"invalid", "user">>)
    THEN "failed_login"
    ELSE IF \/ Contains(lower, <<"accepted", "password">>)
            \/ Contains(lower, <<"accepted", "publickey">>)
    THEN "successful_login"
    ELSE IF \/ Contains(lower, <<"session", "closed", "for", "user">>)
            \/ Contains(lower, <<"disconnected", "from">>)
            \/ Contains(lower, <<"received", "disconnect">>)
            \/ Contains(lower, <<"session", "closed">>)
    THEN "logout"
    ELSE IF \E i \in 1..Len(line) : line[i] \in IpTokens THEN "failed_login"
    ELSE NoStr

\* a chain that looks for the accepted-credential markers first
Classify_acceptedFirst(line) ==
    LET lower == Lower(line) IN
    IF \/ Contains(lower, <<"accepted", "password">>)
       \/ Contains(lower, <<"accepted", "publickey">>)
    THEN "successful_login"
    ELSE IF Contains(lower, <<"failed", "password">>) \/ Contains(lower, <<"invalid", "user">>)
    THEN "failed_login"
    ELSE IF \/ Contains(lower, <<"session", "closed", "for", "user">>)
            \/ Contains(lower, <<"disconnected", "from">>)
            \/ Contains(lower, <<"received", "disconnect">>)
            \/ Contains(lower, <<"session", "closed">>)
    THEN "logout"
    ELSE NoStr

\* the if/elif chain that sets ev_type in the sshd loop ("" = not relevant)
Classify(line) ==
    LET lower == Lower(line) IN
    IF Contains(lower, <<"failed", "password">>) \/ Contains(lower, <<"invalid", "user">>)
    THEN "failed_login"
    ELSE IF \/ Contains(lower, <<"accepted", "password">>)
            \/ Contains(lower, <<"accepted", "publickey">>)
    THEN "successful_login"
    ELSE IF \/ Contains(lower, <<"session", "closed", "for", "user">>)
            \/ Contains(lower, <<"disconnected", "from">>)
            \/ Contains(lower, <<"received", "disconnect">>)
            \/ Contains(lower, <<"session", "closed">>)
    THEN "logout"
    ELSE NoStr

\* the test that makes a logind line a logout line
IsLogindLogout(line) ==
    LET lower == Lower(line) IN
    /\ Contains(lower, <<"session">>)
    /\ \/ Contains(lower, <<"logged", "out">>)
       \/ Contains(lower, <<"removed">>)
       \/ Contains(lower, <<"closed">>)

\* the session pattern searched in the line as written, not in its lower case
SessionId_caseSensitive(line) ==
    LET hits == {i \in 1..Len(line) : /\ line[i] = "session"
                                      /\ i + 1 <= Len(line)
                                      /\ line[i + 1] \in DigitTokens}
    IN  IF hits = {} THEN NoStr ELSE line[Min(hits) + 1]

\* re.search(r"\bsession\s+(\d+)\b", lower): the session id, if any
SessionId(line) ==
    LET lower == Lower(line)
        hits == {i \in 1..Len(lower) : /\ lower[i] = "session"
                                       /\ i + 1 <= Len(lower)
                                       /\ lower[i + 1] \in DigitTokens}
    IN  IF hits = {} THEN NoStr ELSE lower[Min(hits) + 1]

\* an element of the list returned by parse_journalctl_events
AuthEvent(type, username, src_ip, raw) ==
    [type |-> type, username |-> username, src_ip |-> src_ip, raw |-> raw]

\* an identity memory that only successful logins write
RememberLogin_successOnly(ev_type, found, last) ==
    IF ev_type = "successful_login" /\ found # NoStr THEN found ELSE last

\* an identity memory whose fields a login record always overwrites
RememberLogin_overwrite(ev_type, found, last) ==
    IF ev_type \in {"successful_login", "failed_login"} THEN found ELSE last

\* an identity memory that a logout record clears
RememberLogin_forgetOnLogout(ev_type, found, last) ==
    IF ev_type = "logout" THEN NoStr
    ELSE IF ev_type \in {"successful_login", "failed_login"} /\ found # NoStr
    THEN found ELSE last

\* the identity memory written by a login record: a field is overwritten
\* only when the record carries it
RememberLogin(ev_type, found, last) ==
    IF ev_type \in {"successful_login", "failed_login"} /\ found # NoStr
    THEN found ELSE last

\* the field of an sshd event: a logout without the field takes the remembered one
EnrichLogout(ev_type, found, last) ==
    IF ev_type = "logout" /\ found = NoStr /\ last # NoStr THEN last ELSE found

\* a correlator without the whole-line memory
SeenBefore_never(line, seen) == FALSE

\* `if line in seen_raw: continue`
SeenBefore(line, seen) == line \in seen

\* an append that refuses events without a source IP
Emit_requireIp(evs, e) == IF e.src_ip = NoStr THEN evs ELSE Append(evs, e)

\* events.append({...})
Emit(evs, e) == Append(evs, e)

\* a logind loop that runs in every window
LogindLoopRuns_always(saw) == TRUE

\* the logind loop runs only when the sshd loop emitted no logout
LogindLoopRuns(saw) == ~saw

(***************************************************************************)
(* Linux agent: parse_journalctl_events, one collection window             *)
(***************************************************************************)
\* the result of one journalctl invocation: the lines, or a failure
Output(lines) == [ok |-> TRUE, lines |-> lines]
QueryFailed == [ok |-> FALSE, lines |-> <<>>]

LinesOf(out) == IF out.ok THEN out.lines ELSE <<>>

\* a single try around the loop over the units: the first failing query ends it
UnitLines_oneTry(sshOut, sshdOut) ==
    IF ~sshOut.ok THEN <<>>
    ELSE IF ~sshdOut.ok THEN sshOut.lines
    ELSE sshOut.lines \o sshdOut.lines

\* `for unit in ["ssh", "sshd"]` with the try inside the loop: a unit whose
\* query raises is skipped, the other unit's lines are kept
UnitLines(sshOut, sshdOut) == LinesOf(sshOut) \o LinesOf(sshdOut)

\* the three journalctl queries (units ssh and sshd, tag systemd-logind) and
\* the initialisation of the function's locals
Collect(sshOut, sshdOut, logindOut) ==
    /\ apc = "idle"
    /\ ssh_lines' = UnitLines(sshOut, sshdOut)
    /\ logind_lines' = LinesOf(logindOut)
    /\ auth_events' = <<>>
    /\ seen_raw' = {}
    /\ seen_sessions' = {}
    /\ saw_sshd_logout' = FALSE
    /\ lineIx' = 1
    /\ apc' = "ssh"
    /\ nwin' = nwin + 1
    /\ hist' = <<[username |-> LAST_AUTH_USERNAME, src_ip |-> LAST_AUTH_IP]>>
    /\ UNCHANGED <<LAST_AUTH_USERNAME, LAST_AUTH_IP>>
    /\ UNCHANGED <<cvars, mvars, tvars, kvars, wvars>>

\* one iteration of `for line in ssh_lines`
SshLine ==
    /\ apc = "ssh"
    /\ lineIx <= Len(ssh_lines)
    /\ lineIx' = lineIx + 1
    /\ LET line     == ssh_lines[lineIx]
           ev_type  == Classify(line)
           username == extract_username(line)
           src_ip   == extract_ip(line)
       IN  IF SeenBefore(line, seen_raw) THEN
               UNCHANGED <<seen_raw, LAST_AUTH_USERNAME, LAST_AUTH_IP,
                           saw_sshd_logout, auth_events, hist>>
           ELSE
               /\ seen_raw' = seen_raw \cup {line}
               /\ IF ev_type = NoStr THEN
                      UNCHANGED <<LAST_AUTH_USERNAME, LAST_AUTH_IP,
                                  saw_sshd_logout, auth_events, hist>>
                  ELSE
                      /\ LAST_AUTH_USERNAME' = RememberLogin(ev_type, username, LAST_AUTH_USERNAME)
                      /\ LAST_AUTH_IP' = RememberLogin(ev_type, src_ip, LAST_AUTH_IP)
                      /\ saw_sshd_logout' = (saw_sshd_logout \/ ev_type = "logout")
                      /\ auth_events' = Emit(auth_events,
                            AuthEvent(ev_type,
                                      EnrichLogout(ev_type, username, LAST_AUTH_USERNAME'),
                                      EnrichLogout(ev_type, src_ip, LAST_AUTH_IP'),
                                      line))
                      /\ hist' = IF ev_type \in {"successful_login", "failed_login"}
                                 THEN Append(hist, [username |-> username, src_ip |-> src_ip])
                                 ELSE hist
    /\ UNCHANGED <<ssh_lines, logind_lines, seen_sessions, apc, nwin>>
    /\ UNCHANGED <<cvars, mvars, tvars, kvars, wvars>>

\* the sshd loop is exhausted: `if not saw_sshd_logout:` picks what follows
SshDone ==
    /\ apc = "ssh"
    /\ lineIx > Len(ssh_lines)
    /\ lineIx' = 1
    /\ seen_sessions' = {}
    /\ apc' = IF LogindLoopRuns(saw_sshd_logout) THEN "logind" ELSE "ret"
    /\ UNCHANGED <<LAST_AUTH_USERNAME, LAST_AUTH_IP, ssh_lines, logind_lines, seen_raw,
                   saw_sshd_logout, auth_events, nwin, hist>>
    /\ UNCHANGED <<cvars, mvars, tvars, kvars, wvars>>

\* one iteration of `for line in logind_lines`
LogindLine ==
    /\ apc = "logind"
    /\ lineIx <= Len(logind_lines)
    /\ lineIx' = lineIx + 1
    /\ LET line    == logind_lines[lineIx]
           sess_id == SessionId(line)
       IN  IF SeenBefore(line, seen_raw) THEN
               UNCHANGED <<seen_raw, seen_sessions, auth_events>>
           ELSE
               /\ seen_raw' = seen_raw \cup {line}
               /\ IF ~IsLogindLogout(line) THEN
                      UNCHANGED <<seen_sessions, auth_events>>
                  ELSE IF sess_id # NoStr /\ sess_id \in seen_sessions THEN
                      UNCHANGED <<seen_sessions, auth_events>>
                  ELSE
                      /\ seen_sessions' = IF sess_id # NoStr
                                          THEN seen_sessions \cup {sess_id}
                                          ELSE seen_sessions
                      /\ auth_events' = Emit(auth_events,
                            AuthEvent("logout", LAST_AUTH_USERNAME, LAST_AUTH_IP, line))
    /\ UNCHANGED <<LAST_AUTH_USERNAME, LAST_AUTH_IP, ssh_lines, logind_lines,
                   saw_sshd_logout, apc, nwin, hist>>
    /\ UNCHANGED <<cvars, mvars, tvars, kvars, wvars>>

\* the logind loop is exhausted
LogindDone ==
    /\ apc = "logind"
    /\ lineIx > Len(logind_lines)
    /\ apc' = "ret"
    /\ UNCHANGED <<LAST_AUTH_USERNAME, LAST_AUTH_IP, ssh_lines, logind_lines, seen_raw,
                   seen_sessions, saw_sshd_logout, auth_events, lineIx, nwin, hist>>
    /\ UNCHANGED <<cvars, mvars, tvars, kvars, wvars>>

\* the locals of parse_journalctl_events die with the call
ReturnLocals ==
    /\ apc = "ret"
    /\ apc' = "idle"
    /\ ssh_lines' = <<>>
    /\ logind_lines' = <<>>
    /\ seen_raw' = {}
    /\ seen_sessions' = {}
    /\ saw_sshd_logout' = FALSE
    /\ auth_events' = <<>>
    /\ lineIx' = 1
    /\ hist' = <<>>

\* `return events`: the identity memory stays
Return ==
    /\ ReturnLocals
    /\ UNCHANGED <<LAST_AUTH_USERNAME, LAST_AUTH_IP, nwin>>
    /\ UNCHANGED <<cvars, mvars, tvars, kvars, wvars>>

(***************************************************************************)
(* Linux agent: main, the polling loop                                     *)
(***************************************************************************)
JournalEntry(t, src, line) == [t |-> t, src |-> src, line |-> line]

\* journalctl ... --since since_str: the lines of one source logged at or
\* after the given second, oldest first
Since(src, since) ==
    LET sel == SelectSeq(journal, LAMBDA e : e.src = src /\ e.t >= since)
    IN  [i \in 1..Len(sel) |-> sel[i].line]

\* sshd or systemd-logind logs a line
Log(src, line) ==
    /\ apc = "idle"
    /\ Len(journal) < MaxJournal
    /\ \A i \in 1..Len(journal) : journal[i].line # line
    /\ journal' = Append(journal, JournalEntry(clock, src, line))
    /\ UNCHANGED <<clock, last_checked_time, down, failed_raw>>
    /\ UNCHANGED <<cvars, avars, tvars, kvars, wvars>>

\* a journal source stops answering (unit unknown, journalctl exits non-zero)
\* or answers again
SourceDown(src) ==
    /\ apc = "idle"
    /\ src \notin down
    /\ down' = down \cup {src}
    /\ UNCHANGED <<journal, clock, last_checked_time, failed_raw>>
    /\ UNCHANGED <<cvars, avars, tvars, kvars, wvars>>

SourceUp(src) ==
    /\ apc = "idle"
    /\ src \in down
    /\ down' = down \ {src}
    /\ UNCHANGED <<journal, clock, last_checked_time, failed_raw>>
    /\ UNCHANGED <<cvars, avars, tvars, kvars, wvars>>

\* subprocess.check_output(["journalctl", ...]) for one source
Query(src) ==
    IF src \in down THEN QueryFailed ELSE Output(Since(src, last_checked_time))

\* one pass of `while True` up to the call of parse_journalctl_events, whose
\* queries read the journal since last_checked_time
Cycle ==
    /\ nwin < MaxWindows
    /\ Collect(Query("ssh"), Query("sshd"), Query("logind"))

\* session.post returns (with any status): last_checked_time = datetime.now(),
\* then time.sleep
PostReturns ==
    /\ ReturnLocals
    /\ last_checked_time' = clock
    /\ clock' = clock + 1
    /\ UNCHANGED <<journal, down, failed_raw>>
    /\ UNCHANGED <<LAST_AUTH_USERNAME, LAST_AUTH_IP, nwin>>
    /\ UNCHANGED <<cvars, tvars, kvars, wvars>>

\* a loop whose except clause ends the process
AfterException_exit == "dead"

\* `except Exception as e: print(...)` falls through to time.sleep and the
\* next pass of `while True`
AfterException == "idle"

\* collect_metrics raises (psutil, socket): the except branch logs, then
\* time.sleep; the journal is not queried in this pass
CollectRaises ==
    /\ apc = "idle"
    /\ nwin < MaxWindows
    /\ nwin' = nwin + 1
    /\ apc' = AfterException
    /\ clock' = clock + 1
    /\ UNCHANGED <<LAST_AUTH_USERNAME, LAST_AUTH_IP, ssh_lines, logind_lines, seen_raw,
                   seen_sessions, saw_sshd_logout, auth_events, lineIx, hist>>
    /\ UNCHANGED <<journal, last_checked_time, down, failed_raw>>
    /\ UNCHANGED <<cvars, tvars, kvars, wvars>>

\* session.post raises (connection error, timeout): the except branch logs,
\* last_checked_time keeps its value, then time.sleep
PostRaises ==
    /\ apc = "ret"
    /\ apc' = AfterException
    /\ ssh_lines' = <<>>
    /\ logind_lines' = <<>>
    /\ seen_raw' = {}
    /\ seen_sessions' = {}
    /\ saw_sshd_logout' = FALSE
    /\ auth_events' = <<>>
    /\ lineIx' = 1
    /\ hist' = <<>>
    /\ failed_raw' = failed_raw \cup {auth_events[i].raw : i \in 1..Len(auth_events)}
    /\ clock' = clock + 1
    /\ UNCHANGED <<journal, last_checked_time, down>>
    /\ UNCHANGED <<LAST_AUTH_USERNAME, LAST_AUTH_IP, nwin>>
    /\ UNCHANGED <<cvars, tvars, kvars, wvars>>

(***************************************************************************)
(* Windows agent: read_file_new_lines, the tail of the sshd log file       *)
(*                                                                         *)
(* A byte of the file is [id, ch]: ch is "x" (any character of a line) or  *)
(* "nl" (line feed); id numbers the bytes in the order they were written,  *)
(* so that a byte can be told from every other.                            *)
(***************************************************************************)
NoOffset == -1      \* STATE_FILE does not exist

Byte(id, ch) == [id |-> id, ch |-> ch]
NoFile == [exists |-> FALSE, bytes |-> <<>>]

\* an offset that is never taken from the state file
StoredOffset_zero(sf) == 0

\* offset = 0 unless STATE_FILE exists, then int(f.read())
StoredOffset(sf) == IF sf = NoOffset THEN 0 ELSE sf

\* f.seek(offset); chunk = f.read(): nothing when the offset is at or past the end
ReadFrom(bytes, offset) ==
    IF offset >= Len(bytes) THEN <<>> ELSE SubSeq(bytes, offset + 1, Len(bytes))

\* new_offset = f.tell(): the end of the file, or the seek position when
\* that lies past the end
Tell(bytes, offset) == IF offset > Len(bytes) THEN offset ELSE Len(bytes)

RECURSIVE SplitLines(_)
\* [ln.strip() for ln in text.splitlines() if ln.strip()]: the non-empty runs
\* between line feeds
SplitLines(chunk) ==
    IF chunk = <<>> THEN <<>>
    ELSE LET nls  == {i \in 1..Len(chunk) : chunk[i].ch = "nl"}
             k    == IF nls = {} THEN Len(chunk) + 1 ELSE Min(nls)
             line == SubSeq(chunk, 1, k - 1)
             rest == SubSeq(chunk, k + 1, Len(chunk))
         IN  (IF line = <<>> THEN <<>> ELSE <<line>>) \o SplitLines(rest)

Result(kind, chunk) == [kind |-> kind, chunk |-> chunk, lines |-> SplitLines(chunk)]

\* sshd (re)creates its log file at the path
CreateFile ==
    /\ ~log_file.exists
    /\ nfiles < MaxFiles
    /\ log_file' = [exists |-> TRUE, bytes |-> <<>>]
    /\ nfiles' = nfiles + 1
    /\ UNCHANGED <<state_file, written, polls, returned, delivered>>
    /\ UNCHANGED <<cvars, avars, mvars, kvars, wvars>>

\* sshd appends one byte to its log file
AppendByte(ch) ==
    /\ log_file.exists
    /\ written < MaxBytes
    /\ log_file' = [log_file EXCEPT !.bytes = Append(@, Byte(written + 1, ch))]
    /\ written' = written + 1
    /\ UNCHANGED <<state_file, nfiles, polls, returned, delivered>>
    /\ UNCHANGED <<cvars, avars, mvars, kvars, wvars>>

\* the log file is removed (rotation, reinstallation of the server)
DeleteFile ==
    /\ log_file.exists
    /\ log_file' = NoFile
    /\ UNCHANGED <<state_file, written, nfiles, polls, returned, delivered>>
    /\ UNCHANGED <<cvars, avars, mvars, kvars, wvars>>

\* read_file_new_lines, `if not os.path.exists(path): return []`
ReadMissing ==
    /\ ~log_file.exists
    /\ polls < MaxPolls
    /\ polls' = polls + 1
    /\ returned' = Result("missing", <<>>)
    /\ UNCHANGED <<log_file, state_file, written, nfiles, delivered>>
    /\ UNCHANGED <<cvars, avars, mvars, kvars, wvars>>

\* read_file_new_lines, the try block running to its end
ReadNewLines ==
    /\ log_file.exists
    /\ polls < MaxPolls
    /\ polls' = polls + 1
    /\ LET offset == StoredOffset(state_file)
           chunk  == ReadFrom(log_file.bytes, offset)
       IN  /\ state_file' = Tell(log_file.bytes, offset)
           /\ returned' = Result("read", chunk)
           /\ delivered' = delivered \o chunk
    /\ UNCHANGED <<log_file, written, nfiles>>
    /\ UNCHANGED <<cvars, avars, mvars, kvars, wvars>>

\* read_file_new_lines, `except Exception: return []`: opening a file raises
\* (the log is locked by the server), nothing has been read or written
ReadFails ==
    /\ log_file.exists
    /\ polls < MaxPolls
    /\ polls' = polls + 1
    /\ returned' = Result("error", <<>>)
    /\ UNCHANGED <<log_file, state_file, written, nfiles, delivered>>
    /\ UNCHANGED <<cvars, avars, mvars, kvars, wvars>>

(***************************************************************************)
(* Windows agent: the OpenSSH/Operational event log                        *)
(***************************************************************************)
NoRid == 0          \* a row without RecordId: r.get("RecordId") is None
LookBack == 10      \* LAST_CHECKED_UTC starts ten seconds before the start

\* parse_openssh_message; type = NoStr stands for the result None
parse_openssh_message(m) ==
    LET lower == Lower(m)
        etype ==
            IF Contains(lower, <<"failed", "password">>) \/ Contains(lower, <<"invalid", "user">>)
            THEN "failed_login"
            ELSE IF \/ Contains(lower, <<"accepted", "password">>)
                    \/ Contains(lower, <<"accepted", "publickey">>)
            THEN "successful_login"
            ELSE IF \/ Contains(lower, <<"disconnected", "from">>)
                    \/ Contains(lower, <<"connection", "closed">>)
                    \/ Contains(lower, <<"session", "closed">>)
            THEN "logout"
            ELSE NoStr
        \* USER_IP_RE: for <user> from <ip>, in any case
        um  == {i \in 1..Len(m) : /\ i + 3 <= Len(m)
                                  /\ lower[i] = "for"
                                  /\ lower[i + 2] = "from"
                                  /\ m[i + 3] \in IpTokens}
        \* IP_RE
        ips == {i \in 1..Len(m) : m[i] \in IpTokens}
    IN  [type     |-> etype,
         username |-> IF etype = NoStr \/ um = {} THEN NoStr ELSE m[Min(um) + 1],
         src_ip   |-> IF etype = NoStr THEN NoStr
                      ELSE IF um # {} THEN m[Min(um) + 3]
                      ELSE IF ips # {} THEN m[Min(ips)]
                      ELSE NoStr]

\* a record of the channel as Get-WinEvent returns it
Record(rid, t, message) == [rid |-> rid, t |-> t, message |-> message]

\* an agent without the memory of record ids
SeenRecord_never(rid, seen) == FALSE

\* `rid in SEEN_OPENSSH_RECORDS`
SeenRecord(rid, seen) == rid \in seen

RECURSIVE CollectRows(_, _, _, _)
\* the loop `for r in rows` of collect_from_openssh_operational: the record
\* id is remembered before the message is looked at
CollectRows(rows, seen, evs, ids) ==
    IF rows = <<>> THEN [seen |-> seen, events |-> evs, ids |-> ids]
    ELSE
        LET r      == Head(rows)
            parsed == parse_openssh_message(r.message)
        IN  IF r.rid = NoRid \/ SeenRecord(r.rid, seen) THEN
                CollectRows(Tail(rows), seen, evs, ids)
            ELSE IF \/ r.message = <<>>
                    \/ parsed.type = NoStr
                    \/ parsed.src_ip = NoStr
                    \/ parsed.src_ip \in {"127.0.0.1", "::1"} THEN
                CollectRows(Tail(rows), seen \cup {r.rid}, evs, ids)
            ELSE
                CollectRows(Tail(rows), seen \cup {r.rid},
                            Append(evs, AuthEvent(parsed.type, parsed.username,
                                                  parsed.src_ip, r.message)),
                            Append(ids, r.rid))

\* Get-WinEvent with StartTime = since
RowsSince(since) == SelectSeq(event_log, LAMBDA r : r.t >= since)

collect_from_openssh_operational(since_utc) ==
    CollectRows(RowsSince(since_utc), SEEN_OPENSSH_RECORDS, <<>>, <<>>)

\* sshd writes a record to the channel
WinLog(message, withId) ==
    /\ Len(event_log) < MaxRecords
    /\ event_log' = Append(event_log,
                           Record(IF withId THEN Len(event_log) + 1 ELSE NoRid,
                                  wclock, message))
    /\ UNCHANGED <<SEEN_OPENSSH_RECORDS, LAST_CHECKED_UTC, poll_start, wclock, wpc,
                   win_events, emitted_ids>>
    /\ UNCHANGED <<cvars, avars, mvars, tvars, kvars>>

\* `poll_start = datetime.now(timezone.utc)` at the top of the loop body
WinPollStart ==
    /\ wpc = "idle"
    /\ wclock < MaxWinPolls
    /\ poll_start' = wclock
    /\ wpc' = "query"
    /\ UNCHANGED <<SEEN_OPENSSH_RECORDS, event_log, LAST_CHECKED_UTC, wclock,
                   win_events, emitted_ids>>
    /\ UNCHANGED <<cvars, avars, mvars, tvars, kvars>>

\* auth_events = collect_from_openssh_operational(LAST_CHECKED_UTC)
WinCollect ==
    /\ wpc = "query"
    /\ LET r == collect_from_openssh_operational(LAST_CHECKED_UTC)
       IN  /\ SEEN_OPENSSH_RECORDS' = r.seen
           /\ win_events' = r.events
           /\ emitted_ids' = emitted_ids \o r.ids
    /\ wpc' = "post"
    /\ UNCHANGED <<event_log, LAST_CHECKED_UTC, poll_start, wclock>>
    /\ UNCHANGED <<cvars, avars, mvars, tvars, kvars>>

\* the PowerShell query fails or times out: run_ps_json returns []
WinQueryFails ==
    /\ wpc = "query"
    /\ win_events' = <<>>
    /\ wpc' = "post"
    /\ UNCHANGED <<SEEN_OPENSSH_RECORDS, event_log, LAST_CHECKED_UTC, poll_start, wclock,
                   emitted_ids>>
    /\ UNCHANGED <<cvars, avars, mvars, tvars, kvars>>

\* session.post returns: LAST_CHECKED_UTC = poll_start, then time.sleep
WinPostReturns ==
    /\ wpc = "post"
    /\ LAST_CHECKED_UTC' = poll_start
    /\ win_events' = <<>>
    /\ wclock' = wclock + 1
    /\ wpc' = "idle"
    /\ UNCHANGED <<SEEN_OPENSSH_RECORDS, event_log, poll_start, emitted_ids>>
    /\ UNCHANGED <<cvars, avars, mvars, tvars, kvars>>

\* session.post raises: the except branch, then time.sleep
WinPostRaises ==
    /\ wpc = "post"
    /\ win_events' = <<>>
    /\ wclock' = wclock + 1
    /\ wpc' = "idle"
    /\ UNCHANGED <<SEEN_OPENSSH_RECORDS, event_log, LAST_CHECKED_UTC, poll_start,
                   emitted_ids>>
    /\ UNCHANGED <<cvars, avars, mvars, tvars, kvars>>

(***************************************************************************)
(* Classification of one line by the two agents                            *)
(***************************************************************************)
RECURSIVE Flatten(_)
\* the line made of the given phrases, after its prefix token
Flatten(phrases) ==
    IF phrases = <<>> THEN <<>> ELSE Head(phrases) \o Flatten(Tail(phrases))

LineOf(phrases) == <<"c0">> \o Flatten(phrases)

\* the line has not been looked at yet
Unclassified == [linux |-> "?", win |-> "?"]

\* both agents classify the line
ClassifyLine ==
    /\ kinds = Unclassified
    /\ kinds' = [linux |-> Classify(LineOf(msg)),
                 win   |-> parse_openssh_message(LineOf(msg)).type]
    /\ UNCHANGED msg
    /\ UNCHANGED <<cvars, avars, mvars, tvars, wvars>>

(***************************************************************************)
(* Inputs                                                                  *)
(***************************************************************************)
\* submissions offered to the concurrent collector
Payloads ==
    { Payload(TRUE, "meta", "h1", Num(70), Num(50), Num(50), <<>>, ""),
      Payload(TRUE, "meta", "h1", Num(85), Num(50), Num(50), <<>>, ""),
      Payload(TRUE, "meta", "h1", Num(92), Num(90), Num(50), <<>>, ""),
      Payload(TRUE, "meta", "h2", Num(85), Num(50), Num(50), <<>>, ""),
      Payload(TRUE, "flat", "h1", Num(85), Num(50), Num(50), <<>>, "disk swap"),
      Payload(TRUE, "meta", "h1", Num(85), Num(50), Num(50),
              <<AuthEvt("logout", "10.10.1.5"), Malformed>>, ""),
      Payload(FALSE, "meta", "h1", Num(85), Num(90), Num(50), <<>>, "") }

\* submissions of one host evaluated one after the other: (cpu, mem, disk)
SeqTriples ==
    { <<70, 80, 50>>, <<82, 85, 50>>, <<84, 90, 50>>, <<90, 50, 85>>, <<78, 84, 50>> }

SeqPayloads ==
    {Payload(TRUE, "meta", "h1", Num(t[1]), Num(t[2]), Num(t[3]), <<>>, "") : t \in SeqTriples}

\* journal lines of the units ssh / sshd
SshCatalogue ==
    { <<"t1", "Accepted", "password", "for", "alice", "from", "10.0.0.5", "port", "22">>,
      <<"t2", "Failed", "password", "for", "invalid", "user", "bob", "from", "10.0.0.9", "port", "22">>,
      <<"t3", "Accepted", "publickey", "for", "carol", "from", "10.0.0.7", "port", "22">>,
      <<"t4", "pam_unix(sshd:session):", "session", "closed", "for", "user", "alice">>,
      <<"t5", "pam_unix(sshd:session):", "session", "closed">>,
      <<"t6", "Server", "listening", "on", "0.0.0.0", "port", "22">> }

\* journal lines tagged systemd-logind
LogindCatalogue ==
    { <<"t7", "Session", "42", "logged", "out", ".", "Waiting", "for", "processes", "to", "exit", ".">>,
      <<"t8", "Removed", "session", "42", ".">>,
      <<"t9", "New", "session", "43", "of", "user", "alice", ".">> }

SeqsUpTo(S, n) == UNION {[1..k -> S] : k \in 0..n}

\* what the queries of the units ssh and sshd return together
UnitOutputs ==
    UNION {{<<Output(SubSeq(l, 1, k)), Output(SubSeq(l, k + 1, Len(l)))>> : k \in 0..Len(l)} :
              l \in SeqsUpTo(SshCatalogue, MaxSshLines)}
    \cup {<<QueryFailed, Output(l)>> : l \in SeqsUpTo(SshCatalogue, 1)}
    \cup {<<Output(l), QueryFailed>> : l \in SeqsUpTo(SshCatalogue, 1)}
    \cup {<<QueryFailed, QueryFailed>>}
LogindOutputs == {QueryFailed} \cup {Output(l) : l \in SeqsUpTo(LogindCatalogue, MaxLogindLines)}

\* windows that look at the session manager: the ssh units report at most one
\* line each, systemd-logind up to MaxSessionLines lines
SessionSshCatalogue ==
    { <<"t1", "Accepted", "password", "for", "alice", "from", "10.0.0.5", "port", "22">>,
      <<"t5", "pam_unix(sshd:session):", "session", "closed">> }

SessionCatalogue ==
    LogindCatalogue \cup { <<"t10", "Removed", "session", "of", "user", "alice", ".">> }

SessionUnitOutputs ==
    {<<Output(a), Output(b)>> : a \in SeqsUpTo(SessionSshCatalogue, 1),
                                b \in SeqsUpTo(SessionSshCatalogue, 1)}
SessionOutputs == {Output(l) : l \in SeqsUpTo(SessionCatalogue, MaxSessionLines)}

(***************************************************************************)
(* Specifications                                                          *)
(***************************************************************************)
InitCollector ==
    /\ metric_state = NoState
    /\ events = <<>>
    /\ metrics = <<>>
    /\ dbLock = 0
    /\ now = 0
    /\ pc = [w \in Workers |-> "idle"]
    /\ req = [w \in Workers |-> NoPayload]
    /\ kindIx = [w \in Workers |-> 1]
    /\ prev = [w \in Workers |-> [status |-> "normal", last_value |-> NoneVal]]
    /\ tx = [w \in Workers |-> FreshTx]
    /\ nreq = 0
    /\ evals = <<>>

InitAgent ==
    /\ LAST_AUTH_USERNAME = NoStr
    /\ LAST_AUTH_IP = NoStr
    /\ ssh_lines = <<>>
    /\ logind_lines = <<>>
    /\ seen_raw = {}
    /\ seen_sessions = {}
    /\ saw_sshd_logout = FALSE
    /\ auth_events = <<>>
    /\ apc = "idle"
    /\ lineIx = 1
    /\ nwin = 0
    /\ hist = <<>>

InitMain ==
    /\ journal = <<>>
    /\ clock = 0
    /\ last_checked_time = 0
    /\ down = {}
    /\ failed_raw = {}

InitTail ==
    /\ log_file = NoFile
    /\ state_file = NoOffset
    /\ written = 0
    /\ nfiles = 0
    /\ polls = 0
    /\ returned = Result("none", <<>>)
    /\ delivered = <<>>

InitClassify ==
    /\ msg = <<>>
    /\ kinds = Unclassified

InitWin ==
    /\ SEEN_OPENSSH_RECORDS = {}
    /\ event_log = <<>>
    /\ LAST_CHECKED_UTC = 0 - LookBack
    /\ poll_start = 0
    /\ wclock = 0
    /\ wpc = "idle"
    /\ win_events = <<>>
    /\ emitted_ids = <<>>

Init == InitCollector /\ InitAgent /\ InitMain /\ InitTail /\ InitClassify /\ InitWin

\* the steps of a request that has been accepted
Serve(w) ==
    \/ InsertMetrics(w)
    \/ InsertBusy(w)
    \/ HmGet(w)
    \/ HmDecide(w)
    \/ AuthEvents(w)
    \/ AuthEventsRaise(w)
    \/ FlatEvent(w)
    \/ Commit(w)

\* the collector behind waitress: NumWorkers request threads
Next ==
    \/ nreq < MaxRequests /\ \E w \in Workers, p \in Payloads : RejectUnauthorized(w, p)
    \/ nreq < MaxRequests /\ \E w \in Workers, p \in Payloads : Accept(w, p)
    \/ \E w \in Workers : Serve(w)

Spec == Init /\ [][Next]_vars

\* one host's submissions handled one at a time
NextSeq ==
    \/ nreq < MaxSeqRequests /\ \E p \in SeqPayloads : Accept(1, p)
    \/ InsertMetrics(1)
    \/ HmGet(1)
    \/ HmDecide(1)
    \/ AuthEvents(1)
    \/ Commit(1)

SpecSeq == Init /\ [][NextSeq]_vars

\* submissions of both shapes, one of them with a cpu value that float()
\* rejects and one with the cpu value "nan"
BatchTriples == { <<70, 50, 50>>, <<85, 50, 50>>, <<91, 85, 50>> }

BatchPayloads ==
    {Payload(TRUE, sh, "h1", Num(t[1]), Num(t[2]), Num(t[3]), <<>>, "") :
        sh \in {"meta", "flat"}, t \in BatchTriples}
    \cup { Payload(TRUE, "meta", "h1", BadNum, Num(50), Num(50), <<>>, ""),
           Payload(TRUE, "meta", "h1", Num(NaN), Num(50), Num(50), <<>>, ""),
           Payload(TRUE, "meta", "h2", Num(85), Num(50), Num(50),
                   <<AuthEvt("failed_login", "10.0.0.9")>>, "") }

\* mixed submissions handled one at a time
NextBatch ==
    \/ nreq < MaxBatchRequests /\ \E p \in BatchPayloads : Accept(1, p)
    \/ InsertMetrics(1)
    \/ HmGet(1)
    \/ HmDecide(1)
    \/ AuthEvents(1)
    \/ FlatEvent(1)
    \/ Commit(1)

SpecBatch == Init /\ [][NextBatch]_vars

\* the Linux agent's correlator, window after window
NextAgent ==
    \/ /\ apc = "idle" /\ nwin < MaxWindows
       /\ \E u \in UnitOutputs, c \in LogindOutputs : Collect(u[1], u[2], c)
    \/ SshLine
    \/ SshDone
    \/ LogindLine
    \/ LogindDone
    \/ Return

SpecAgent == Init /\ [][NextAgent]_vars

\* the correlator in windows dominated by session-manager lines
NextSessions ==
    \/ /\ apc = "idle" /\ nwin < MaxWindows
       /\ \E u \in SessionUnitOutputs, c \in SessionOutputs : Collect(u[1], u[2], c)
    \/ SshLine
    \/ SshDone
    \/ LogindLine
    \/ LogindDone
    \/ Return

SpecSessions == Init /\ [][NextSessions]_vars

\* what the journal receives while the agent's main loop runs
MainCatalogue ==
    { <<"ssh", <<"t2", "Failed", "password", "for", "invalid", "user", "bob", "from", "10.0.0.9", "port", "22">> >>,
      <<"ssh", <<"t4", "pam_unix(sshd:session):", "session", "closed", "for", "user", "alice">> >>,
      <<"logind", <<"t7", "Session", "42", "logged", "out", ".", "Waiting", "for", "processes", "to", "exit", ".">> >> }

\* the Linux agent's polling loop and the journal it reads
NextMain ==
    \/ \E l \in MainCatalogue : Log(l[1], l[2])
    \/ Cycle
    \/ SshLine
    \/ SshDone
    \/ LogindLine
    \/ LogindDone
    \/ PostReturns
    \/ PostRaises

SpecMain == Init /\ [][NextMain]_vars

\* the steps of the agent's own thread
LoopStep ==
    \/ Cycle
    \/ CollectRaises
    \/ SshLine
    \/ SshDone
    \/ LogindLine
    \/ LogindDone
    \/ PostReturns
    \/ PostRaises

\* what the journal receives while the loop is watched
LoopCatalogue ==
    { <<"ssh", <<"t2", "Failed", "password", "for", "invalid", "user", "bob", "from", "10.0.0.9", "port", "22">> >>,
      <<"logind", <<"t7", "Session", "42", "logged", "out", ".", "Waiting", "for", "processes", "to", "exit", ".">> >> }

NextLoop ==
    \/ \E l \in LoopCatalogue : Log(l[1], l[2])
    \/ LoopStep

\* the polling loop as a thread that keeps running: a step of the loop that
\* can be taken is taken (calls and time.sleep return)
SpecLoop == Init /\ [][NextLoop]_vars /\ WF_vars(LoopStep)

\* what the journal receives while sources come and go
SourcesCatalogue ==
    { <<"ssh", <<"t1", "Accepted", "password", "for", "alice", "from", "10.0.0.5", "port", "22">> >>,
      <<"sshd", <<"t2", "Failed", "password", "for", "invalid", "user", "bob", "from", "10.0.0.9", "port", "22">> >>,
      <<"logind", <<"t7", "Session", "42", "logged", "out", ".", "Waiting", "for", "processes", "to", "exit", ".">> >> }

\* the polling loop over a journal whose sources fail and recover
NextSources ==
    \/ \E l \in SourcesCatalogue : Log(l[1], l[2])
    \/ \E src \in {"ssh", "sshd", "logind"} : SourceDown(src)
    \/ \E src \in {"ssh", "sshd", "logind"} : SourceUp(src)
    \/ Cycle
    \/ SshLine
    \/ SshDone
    \/ LogindLine
    \/ LogindDone
    \/ PostReturns

SpecSources == Init /\ [][NextSources]_vars

\* the Windows agent's log file tail and the server that writes the file
NextTail ==
    \/ CreateFile
    \/ \E ch \in {"x", "nl"} : AppendByte(ch)
    \/ DeleteFile
    \/ ReadMissing
    \/ ReadNewLines
    \/ ReadFails

SpecTail == Init /\ [][NextTail]_vars

\* the phrases a line is made of: the markers of both agents and a filler
Phrases ==
    { <<"Failed", "password">>, <<"Invalid", "user">>,
      <<"Accepted", "password">>, <<"Accepted", "publickey">>,
      <<"session", "closed">>, <<"Disconnected", "from">>,
      <<"Received", "disconnect">>, <<"Connection", "closed">>,
      <<"port", "22">> }

\* any line of up to MaxPhrases phrases
InitLines ==
    /\ InitCollector /\ InitAgent /\ InitMain /\ InitTail /\ InitWin
    /\ msg \in SeqsUpTo(Phrases, MaxPhrases)
    /\ kinds = Unclassified

NextClassify == ClassifyLine

SpecClassify == InitLines /\ [][NextClassify]_vars

\* messages of the records sshd writes to the channel
WinCatalogue ==
    { <<"m1", "Accepted", "password", "for", "alice", "from", "10.0.0.5", "port", "22">>,
      <<"m2", "Server", "listening", "on", "0.0.0.0", "port", "22">> }

\* the Windows agent's polling loop over the event log
NextWin ==
    \/ \E m \in WinCatalogue : WinLog(m, TRUE)
    \/ \E m \in WinCatalogue : m[1] = "m1" /\ WinLog(m, FALSE)
    \/ WinPollStart
    \/ WinCollect
    \/ WinQueryFails
    \/ WinPostReturns
    \/ WinPostRaises

SpecWin == Init /\ [][NextWin]_vars

(***************************************************************************)
(* Properties of handle_metric                                             *)
(***************************************************************************)
\* worker w executes the body of handle_metric in this step
Evaluates(w) == pc[w] = "hm_decide" /\ pc'[w] # "hm_decide"

EvalHost(w) == req[w].host
EvalKind(w) == KindSeq[kindIx[w]]
EvalPair(w) == <<EvalHost(w), EvalKind(w)>>
EvalValue(w) == MetricValue(req[w], EvalKind(w))
EvalHigh(w) == EvalValue(w) >= Threshold(EvalKind(w))

\* the status stored for the pair under evaluation, as w's connection sees it
StoredHigh(w) == RowVisible(w, EvalPair(w)) /\ VisibleRow(w, EvalPair(w)).status = "high"
StoredLast(w) == VisibleRow(w, EvalPair(w)).last_value

\* the alerts the step added to w's transaction
Emitted(w) == SubSeq(tx'[w].events, Len(tx[w].events) + 1, Len(tx'[w].events))

\* the pair's row after the step
RowAfter(w) ==
    IF EvalPair(w) \in DOMAIN tx'[w].state THEN tx'[w].state[EvalPair(w)]
    ELSE metric_state'[EvalPair(w)]
RowExistsAfter(w) ==
    EvalPair(w) \in DOMAIN tx'[w].state \/ EvalPair(w) \in DOMAIN metric_state'

\* C1: an evaluation with value >= threshold (equality included) of a pair
\* stored as normal, or not stored, appends exactly one critical
\* "<KIND> high on <host>" alert and leaves the pair at status high with
\* last_value = value.
C1_CrossingEmitsCritical ==
    [][\A w \in Workers :
        (Evaluates(w) /\ ~StoredHigh(w) /\ EvalHigh(w)) =>
            /\ Emitted(w) = <<Alert(EvalHost(w), "critical", "metric", Upper(EvalKind(w)),
                                    "high on", EvalValue(w), "")>>
            /\ RowExistsAfter(w)
            /\ RowAfter(w).status = "high"
            /\ RowAfter(w).last_value = Some(EvalValue(w))]_vars

\* a crossing alert fired by a value equal to the threshold has been stored
C1_Witness ==
    \E i \in 1..Len(events) :
        /\ events[i].text = "high on"
        /\ events[i].level = "critical"
        /\ events[i].kind = "MEM"
        /\ events[i].value = MEM_TH
        /\ <<events[i].host, "mem">> \in DOMAIN metric_state

\* C2: an evaluation with value < threshold of a pair stored as high appends
\* exactly one info "back to normal" alert and leaves the pair at status
\* normal with last_value = value.
C2_RecoveryEmitsInfo ==
    [][\A w \in Workers :
        (Evaluates(w) /\ StoredHigh(w) /\ ~EvalHigh(w)) =>
            /\ Emitted(w) = <<Alert(EvalHost(w), "info", "metric", Upper(EvalKind(w)),
                                    "back to normal", EvalValue(w), "")>>
            /\ RowAfter(w).status = "normal"
            /\ RowAfter(w).last_value = Some(EvalValue(w))]_vars

\* a recovery alert has been stored and its pair is back at normal
C2_Witness ==
    \E i \in 1..Len(events) :
        /\ events[i].text = "back to normal"
        /\ events[i].level = "info"
        /\ events[i].kind = "CPU"
        /\ metric_state[<<events[i].host, "cpu">>].status = "normal"
        /\ metric_state[<<events[i].host, "cpu">>].last_value = Some(events[i].value)

\* C3: an evaluation with value >= threshold of a pair stored as high whose
\* value is at least METRIC_DELTA_RESEND away from the stored last_value
\* (equality included) appends exactly one critical "still high" alert,
\* keeps status high and sets last_value to value.
C3_DriftResends ==
    [][\A w \in Workers :
        (/\ Evaluates(w) /\ StoredHigh(w) /\ EvalHigh(w)
         /\ ~StoredLast(w).isNone
         /\ Abs(EvalValue(w) - StoredLast(w).v) >= METRIC_DELTA_RESEND) =>
            /\ Emitted(w) = <<Alert(EvalHost(w), "critical", "metric", Upper(EvalKind(w)),
                                    "still high", EvalValue(w), "")>>
            /\ RowAfter(w).status = "high"
            /\ RowAfter(w).last_value = Some(EvalValue(w))]_vars

\* a "still high" alert has been stored that is exactly METRIC_DELTA_RESEND
\* above the alert stored before it for the same host and kind
C3_Witness ==
    \E i \in 1..Len(events), j \in 1..Len(events) :
        /\ i < j
        /\ events[j].text = "still high"
        /\ events[i].text = "high on"
        /\ events[i].kind = events[j].kind
        /\ events[i].host = events[j].host
        /\ events[j].value - events[i].value = METRIC_DELTA_RESEND
        /\ \A m \in (i + 1)..(j - 1) : events[m].kind # events[i].kind

\* C4: an evaluation with value >= threshold of a pair stored as high whose
\* value is less than METRIC_DELTA_RESEND away from the stored last_value
\* appends no alert and leaves the pair's row as it was: status, last_value
\* and updated_ts.
C4_SmallDriftIsSilent ==
    [][\A w \in Workers :
        (/\ Evaluates(w) /\ StoredHigh(w) /\ EvalHigh(w)
         /\ ~StoredLast(w).isNone
         /\ Abs(EvalValue(w) - StoredLast(w).v) < METRIC_DELTA_RESEND) =>
            /\ Emitted(w) = <<>>
            /\ RowAfter(w) = VisibleRow(w, EvalPair(w))]_vars

\* a committed evaluation above the threshold that emitted nothing, made
\* later than the write that is still the pair's row
C4_Witness ==
    \E i \in 1..Len(evals) :
        /\ evals[i].emit = ""
        /\ evals[i].value >= Threshold(evals[i].kind)
        /\ metric_state[<<evals[i].host, evals[i].kind>>].status = "high"
        /\ metric_state[<<evals[i].host, evals[i].kind>>].updated_ts < now
        /\ i + Len(KindSeq) > Len(evals)

(***************************************************************************)
(* Properties of the collector's alert history                             *)
(***************************************************************************)
Range(s) == {s[i] : i \in 1..Len(s)}

\* the subsequence of s made of its elements that are in T
Pick(s, T) == SelectSeq(s, LAMBDA e : e \in T)

\* the committed metric alerts / evaluations of one (host, kind), in order
PairEvents(h, k) ==
    SelectSeq(events, LAMBDA e : e.src = "metric" /\ e.host = h /\ e.kind = Upper(k))
PairEvals(h, k) ==
    SelectSeq(evals, LAMBDA e : e.host = h /\ e.kind = k)

CountWhere(s, T) == Len(Pick(s, T))
Criticals(s) == {e \in Range(s) : e.level = "critical"}
Recoveries(s) == {e \in Range(s) : e.text = "back to normal"}

InTransaction(w) == pc[w] \in {"hm_get", "hm_decide", "tail", "commit"}

\* C5: evaluations of one pair by concurrently served submissions do not
\* interleave: at most one request is between its first read of
\* metric_state and its commit, what handle_metric read is still what is
\* stored when it decides, and the stored alerts of a pair never hold two
\* "high on" crossings without a "back to normal" between them; when every
\* committed value of a pair is at or above the threshold there is exactly
\* one crossing alert.
C5_EvaluationsSerialized ==
    /\ \A w1 \in Workers, w2 \in Workers :
            (InTransaction(w1) /\ InTransaction(w2)) => w1 = w2
    /\ \A w \in Workers :
            pc[w] = "hm_decide" =>
                prev[w] = _get_metric_state(w, req[w].host, KindSeq[kindIx[w]])
    /\ \A h \in Hosts, k \in Kinds :
            LET ev == PairEvents(h, k) IN
            /\ \A i \in 1..Len(ev), j \in 1..Len(ev) :
                    (i < j /\ ev[i].text = "high on" /\ ev[j].text = "high on") =>
                        \E m \in (i + 1)..(j - 1) : ev[m].text = "back to normal"
            /\ (/\ PairEvals(h, k) # <<>>
                /\ \A i \in 1..Len(PairEvals(h, k)) : PairEvals(h, k)[i].value >= Threshold(k))
               => CountWhere(ev, {e \in Range(ev) : e.text = "high on"}) = 1

\* a submission waits for the write lock while another one for the same
\* host, both with cpu above the threshold, has evaluated cpu from status
\* normal and is about to commit its crossing alert
C5_Witness ==
    \E w1 \in Workers, w2 \in Workers :
        /\ w1 # w2
        /\ pc[w1] = "commit"
        /\ pc[w2] = "insert"
        /\ req[w1].host = req[w2].host
        /\ F(req[w1].cpu) >= CPU_TH
        /\ F(req[w2].cpu) >= CPU_TH
        /\ <<req[w1].host, "cpu">> \notin DOMAIN metric_state
        /\ \E i \in 1..Len(tx[w1].events) :
                tx[w1].events[i].text = "high on" /\ tx[w1].events[i].kind = "CPU"

\* the number of critical alerts the claim's rule gives for a sequence of
\* values: one per crossing from below (or from nothing) to at or above the
\* threshold, one per later value still at or above it that is at least
\* METRIC_DELTA_RESEND away from the last alerted value
RECURSIVE CountCriticals(_, _, _, _, _)
\* the count over vals[i..], given n alerts so far, the last of value `last`
CountCriticals(vals, th, i, n, last) ==
    IF i > Len(vals) THEN n
    ELSE LET v == vals[i].value
             wasHigh == i > 1 /\ vals[i - 1].value >= th
         IN  IF v >= th /\ ~wasHigh THEN CountCriticals(vals, th, i + 1, n + 1, v)
             ELSE IF v >= th /\ Abs(v - last) >= METRIC_DELTA_RESEND
                  THEN CountCriticals(vals, th, i + 1, n + 1, v)
             ELSE CountCriticals(vals, th, i + 1, n, last)

ExpectedCriticals(vals, th) == CountCriticals(vals, th, 1, 0, 0)

\* C6: for every pair, the number of critical alerts stored equals the
\* number of evaluations that cross from normal/absent to value >= threshold
\* plus the number of later evaluations, while still high, whose value is at
\* least METRIC_DELTA_RESEND away from the last alerted value.
C6_CriticalCount ==
    \A h \in Hosts, k \in Kinds :
        CountWhere(PairEvents(h, k), Criticals(PairEvents(h, k)))
            = ExpectedCriticals(PairEvals(h, k), Threshold(k))

\* five evaluations of cpu with a crossing, a silent one, a resend, a
\* recovery and a second crossing
C6_Witness ==
    /\ Len(PairEvals("h1", "cpu")) = 5
    /\ CountWhere(PairEvents("h1", "cpu"), Criticals(PairEvents("h1", "cpu"))) = 3
    /\ \E i \in 1..5 : PairEvals("h1", "cpu")[i].emit = "still high"
    /\ \E i \in 1..5 : /\ PairEvals("h1", "cpu")[i].emit = ""
                       /\ PairEvals("h1", "cpu")[i].value >= CPU_TH

\* C7: a recovery alert is emitted by exactly those evaluations that are
\* below the threshold and follow an evaluation at or above it; none is
\* emitted by an evaluation that stays normal or stays high, and between
\* two recovery alerts of a pair there is a crossing alert.
C7_RecoveryOncePerRun ==
    \A h \in Hosts, k \in Kinds :
        LET ev == PairEvents(h, k)
            vals == PairEvals(h, k)
            recovers(i) == /\ i > 1
                           /\ vals[i].value < Threshold(k)
                           /\ vals[i - 1].value >= Threshold(k)
        IN  /\ \A i \in 1..Len(vals) : (vals[i].emit = "back to normal") <=> recovers(i)
            /\ CountWhere(ev, Recoveries(ev)) = Cardinality({i \in 1..Len(vals) : recovers(i)})
            /\ \A e \in Recoveries(ev) : e.level = "info"
            /\ \A i \in 1..Len(ev), j \in 1..Len(ev) :
                    (i < j /\ ev[i].text = "back to normal" /\ ev[j].text = "back to normal")
                        => \E m \in (i + 1)..(j - 1) : ev[m].text = "high on"

\* two runs of high evaluations of cpu, each ended by one recovery alert,
\* with an evaluation that stayed normal after the first
C7_Witness ==
    /\ CountWhere(PairEvents("h1", "cpu"), Recoveries(PairEvents("h1", "cpu"))) = 2
    /\ Len(PairEvals("h1", "cpu")) = 5
    /\ PairEvals("h1", "cpu")[2].emit = "back to normal"
    /\ PairEvals("h1", "cpu")[3].value < CPU_TH

\* the value carried by the last critical alert of a sequence of alerts
LastCriticalValue(ev) ==
    LET idx == {i \in 1..Len(ev) : ev[i].level = "critical"}
    IN  ev[CHOOSE i \in idx : \A j \in idx : j <= i].value

ValuesOf(vals) == [i \in 1..Len(vals) |-> vals[i].value]

\* C8: while a pair is stored as high, its last_value is the value of the
\* most recent critical alert of the pair (not the most recent observation);
\* the values 70, 82, 84, 90, 78 against threshold 80 give exactly a
\* crossing alert at 82, a "still high" alert at 90 and a recovery alert at
\* 78.
C8_BaselineIsLastAlert ==
    /\ \A h \in Hosts, k \in Kinds :
            (<<h, k>> \in DOMAIN metric_state /\ metric_state[<<h, k>>].status = "high") =>
                /\ Criticals(PairEvents(h, k)) # {}
                /\ metric_state[<<h, k>>].last_value = Some(LastCriticalValue(PairEvents(h, k)))
    /\ ValuesOf(PairEvals("h1", "cpu")) = <<70, 82, 84, 90, 78>> =>
            PairEvents("h1", "cpu") =
                << MetricAlert("h1", "critical", "cpu", "high on", 82),
                   MetricAlert("h1", "critical", "cpu", "still high", 90),
                   MetricAlert("h1", "info", "cpu", "back to normal", 78) >>

\* the five values of the example have been evaluated and committed
C8_Witness ==
    /\ ValuesOf(PairEvals("h1", "cpu")) = <<70, 82, 84, 90, 78>>
    /\ Len(PairEvents("h1", "cpu")) = 3

(***************************************************************************)
(* Properties of the Linux agent's correlator                              *)
(***************************************************************************)
\* the most recent entry of h that carries a username / a source IP
LastUsername(h) ==
    LET idx == {i \in 1..Len(h) : h[i].username # NoStr}
    IN  IF idx = {} THEN NoStr ELSE h[CHOOSE i \in idx : \A j \in idx : j <= i].username
LastSrcIp(h) ==
    LET idx == {i \in 1..Len(h) : h[i].src_ip # NoStr}
    IN  IF idx = {} THEN NoStr ELSE h[CHOOSE i \in idx : \A j \in idx : j <= i].src_ip

\* this step of the sshd loop emits a logout event
EmitsSshdLogout ==
    /\ apc = "ssh"
    /\ Len(auth_events') = Len(auth_events) + 1
    /\ auth_events'[Len(auth_events')].type = "logout"

\* C9: an sshd logout record without a username (without a source IP) is
\* emitted with the username (IP) of the most recent preceding login record,
\* successful or failed, that carried one, be it of this window or of an
\* earlier one: within a window the event takes the field from the latest
\* such login processed before it or, failing that, from what the agent
\* remembered when the window started, and what the agent remembers does not
\* change between the end of a window and the start of the next.
C9_LogoutInheritsIdentity ==
    [][/\ EmitsSshdLogout =>
            LET e == auth_events'[Len(auth_events')] IN
            /\ extract_username(e.raw) = NoStr => e.username = LastUsername(hist)
            /\ extract_ip(e.raw) = NoStr => e.src_ip = LastSrcIp(hist)
            /\ extract_username(e.raw) # NoStr => e.username = extract_username(e.raw)
       /\ apc \in {"ret", "idle"} =>
            /\ LAST_AUTH_USERNAME' = LAST_AUTH_USERNAME
            /\ LAST_AUTH_IP' = LAST_AUTH_IP
       /\ (apc = "ssh" /\ hist' # hist) =>
            /\ LAST_AUTH_USERNAME' = LastUsername(hist')
            /\ LAST_AUTH_IP' = LastSrcIp(hist')]_vars

\* in the second window, which holds no login line, a logout line without
\* username and IP has been emitted as alice from 10.0.0.5, the login of the
\* first window
C9_Witness ==
    /\ nwin = 2
    /\ Len(hist) = 1
    /\ \E i \in 1..Len(auth_events) :
            /\ auth_events[i].type = "logout"
            /\ extract_username(auth_events[i].raw) = NoStr
            /\ extract_ip(auth_events[i].raw) = NoStr
            /\ auth_events[i].username = "alice"
            /\ auth_events[i].src_ip = "10.0.0.5"

\* the lines of this window's sshd source that classify as logout
SshdLogoutLines == {i \in 1..Len(ssh_lines) : Classify(ssh_lines[i]) = "logout"}

\* the events of this window made from a systemd-logind line
LogindEvents == {i \in 1..Len(auth_events) : auth_events[i].raw \in LogindCatalogue}

\* C10: in a window whose sshd source holds a line classified as logout no
\* event is produced from a systemd-logind line; logind events exist only
\* in windows whose sshd source holds no logout.
C10_SshdLogoutSuppressesLogind ==
    /\ SshdLogoutLines # {} => LogindEvents = {}
    /\ LogindEvents # {} => SshdLogoutLines = {}

\* a window is finished whose sshd source reported a logout and whose logind
\* source held a logout line: the only events are those of sshd
C10_Witness ==
    /\ apc = "ret"
    /\ SshdLogoutLines # {}
    /\ \E i \in 1..Len(logind_lines) : IsLogindLogout(logind_lines[i])
    /\ auth_events # <<>>
    /\ LogindEvents = {}

\* what the lines of SessionCatalogue say, read off the lines themselves:
\* "Session 42 logged out" (t7) and "Removed session 42." (t8) report the end
\* of session 42, "Removed session of user alice" (t10) the end of a session
\* without id, "New session 43" (t9) no logout
ReportsLogout(line) == line[1] \in {"t7", "t8", "t10"}
ReportedSession(line) == IF line[1] \in {"t7", "t8"} THEN "42" ELSE NoStr

\* the lines of the session-manager source that report the logout of session d
SessionLogoutLines(d) ==
    {j \in 1..Len(logind_lines) :
        ReportsLogout(logind_lines[j]) /\ ReportedSession(logind_lines[j]) = d}

\* the events of this window made from a logout line of session d
SessionEvents(d) ==
    {i \in 1..Len(auth_events) :
        /\ auth_events[i].raw \in SessionCatalogue
        /\ ReportedSession(auth_events[i].raw) = d}

\* C11: within one window the session-manager source yields at most one
\* logout event per numeric session id, and that event is made from the first
\* logout line carrying the id; when the session-manager loop has run to its
\* end, every session id of its logout lines has exactly one event, in every
\* window (the memory of seen ids does not outlive a window).
C11_OneLogoutPerSession ==
    \A d \in DigitTokens :
        /\ Cardinality(SessionEvents(d)) <= 1
        /\ \A i \in SessionEvents(d) :
              auth_events[i].raw = logind_lines[Min(SessionLogoutLines(d))]
        /\ (apc = "ret" /\ ~saw_sshd_logout /\ SessionLogoutLines(d) # {})
              => Cardinality(SessionEvents(d)) = 1

\* the second window reported "Session 42 logged out" and then "Removed
\* session 42.": one logout event, made from the first of the two lines
C11_Witness ==
    /\ apc = "ret"
    /\ nwin = 2
    /\ Len(logind_lines) = 2
    /\ logind_lines[1][1] = "t7"
    /\ logind_lines[2][1] = "t8"
    /\ Len(auth_events) = 1
    /\ auth_events[1].type = "logout"
    /\ auth_events[1].raw = logind_lines[1]

\* the events of this window made from the raw line l
EventsOf(l) == {i \in 1..Len(auth_events) : auth_events[i].raw = l}

\* the loop that is running takes up a line it has met before in this window
TakesSeenLine ==
    \/ apc = "ssh" /\ lineIx <= Len(ssh_lines) /\ ssh_lines[lineIx] \in seen_raw
    \/ apc = "logind" /\ lineIx <= Len(logind_lines) /\ logind_lines[lineIx] \in seen_raw

\* C12: within one window no two emitted events have the same raw line; a
\* line met before in the window is passed over with no effect on the event
\* list, on the identity memory or on the cross-source flag; and the memory
\* of seen lines is the window's own: when the sshd loop of a window is
\* through, every relevant line of its sshd source has exactly one event,
\* whatever earlier windows held, and so has, at the end of a session-manager
\* loop, every session-manager logout line without a session id.
C12_NoDuplicateRawLine ==
    [][/\ TakesSeenLine =>
            /\ auth_events' = auth_events
            /\ LAST_AUTH_USERNAME' = LAST_AUTH_USERNAME
            /\ LAST_AUTH_IP' = LAST_AUTH_IP
            /\ saw_sshd_logout' = saw_sshd_logout
            /\ seen_sessions' = seen_sessions
       /\ \A i, j \in 1..Len(auth_events') :
            auth_events'[i].raw = auth_events'[j].raw => i = j
       /\ apc' \in {"logind", "ret"} =>
            \A k \in 1..Len(ssh_lines') :
                Classify(ssh_lines'[k]) # NoStr =>
                    Cardinality({i \in 1..Len(auth_events') :
                                    auth_events'[i].raw = ssh_lines'[k]}) = 1
       /\ (apc' = "ret" /\ ~saw_sshd_logout') =>
            \A k \in 1..Len(logind_lines') :
                (ReportsLogout(logind_lines'[k]) /\ ReportedSession(logind_lines'[k]) = NoStr) =>
                    Cardinality({i \in 1..Len(auth_events') :
                                    auth_events'[i].raw = logind_lines'[k]}) = 1]_vars

\* the first window processed alice's login line; in the second window both
\* ssh units returned that same line again and the session manager returned
\* one logout line twice: one login event and one logout event
C12_Witness ==
    /\ apc = "ret"
    /\ nwin = 2
    /\ hist[1].username = "alice"
    /\ Len(ssh_lines) = 2
    /\ ssh_lines[1] = ssh_lines[2]
    /\ ssh_lines[1][1] = "t1"
    /\ Len(logind_lines) = 2
    /\ logind_lines[1] = logind_lines[2]
    /\ logind_lines[1][1] = "t10"
    /\ Len(auth_events) = 2
    /\ Cardinality(EventsOf(ssh_lines[1])) = 1
    /\ Cardinality(EventsOf(logind_lines[1])) = 1

(***************************************************************************)
(* Properties of ingest's auth event loop                                  *)
(***************************************************************************)
RECURSIVE WellFormedOnly(_)
\* the elements of a submitted auth event list that are JSON objects
WellFormedOnly(evts) ==
    IF evts = <<>> THEN <<>>
    ELSE IF Head(evts).wf THEN <<Head(evts)>> \o WellFormedOnly(Tail(evts))
    ELSE WellFormedOnly(Tail(evts))

\* worker w leaves the auth event loop of a submission that holds a
\* malformed event
LeavesLoopWithMalformed(w) ==
    /\ pc[w] = "tail"
    /\ req[w].shape = "meta"
    /\ ~AllWellFormed(req[w].auth)
    /\ pc'[w] # "tail"

\* C13: a malformed auth event is skipped and the submission goes on: the
\* request proceeds to its commit with the snapshot, the MetricState writes
\* and the metric alerts it has prepared, plus the alerts of the well-formed
\* auth events of the list.
C13_MalformedEventIsSkipped ==
    [][\A w \in Workers :
          LeavesLoopWithMalformed(w) =>
              /\ pc'[w] = "commit"
              /\ tx'[w].metrics = tx[w].metrics
              /\ tx'[w].state = tx[w].state
              /\ tx'[w].evals = tx[w].evals
              /\ tx'[w].events =
                    tx[w].events \o MapAuthEvents(req[w].host, WellFormedOnly(req[w].auth))]_vars

(***************************************************************************)
(* Properties of the Windows agent's log file tail                         *)
(***************************************************************************)
\* this step is a call of read_file_new_lines
Polls == polls' = polls + 1

\* C14: a call on a path that does not exist returns no lines and leaves the
\* persisted offset as it is, and a file that appears later is read from its
\* own beginning: after a call that read the file, every byte the file holds
\* has been returned by this or an earlier call, none was skipped.
C14_NewFileReadFromStart ==
    [][/\ (Polls /\ ~log_file.exists) =>
            /\ returned'.lines = <<>>
            /\ state_file' = state_file
       /\ (Polls /\ returned'.kind = "read") =>
            \A i \in 1..Len(log_file.bytes) : log_file.bytes[i] \in Range(delivered')]_vars

\* the path has held one file only, which is there and was only appended to
AppendOnly == nfiles = 1 /\ log_file.exists

\* C15: for an append-only file a successful call returns exactly the bytes
\* appended since the previous successful call and persists the end of the
\* file as the offset, so that the chunks of the successful calls, put one
\* after the other, are the file (every byte once, none skipped); a call that
\* follows a successful one with nothing appended in between returns an empty
\* line list.
C15_TailDeliversAppendedBytes ==
    [][/\ (AppendOnly /\ Polls /\ returned'.kind = "read") =>
            /\ returned'.chunk =
                    ReadFrom(log_file.bytes, Len(delivered))
            /\ state_file' = Len(log_file.bytes)
            /\ delivered' = log_file.bytes
            /\ Len(delivered) = Len(log_file.bytes) => returned'.lines = <<>>
       /\ AppendOnly' => /\ Len(delivered') <= Len(log_file'.bytes)
                         /\ delivered' = SubSeq(log_file'.bytes, 1, Len(delivered'))
                         /\ StoredOffset(state_file') = Len(delivered')]_vars

\* three calls on one growing file: the first read "x", the second the line
\* feed and one more byte appended since, the third, with nothing appended,
\* returned no line
C15_Witness ==
    /\ AppendOnly
    /\ polls = 3
    /\ Len(log_file.bytes) = 3
    /\ delivered = log_file.bytes
    /\ state_file = 3
    /\ returned.kind = "read"
    /\ returned.chunk = <<>>
    /\ returned.lines = <<>>

(***************************************************************************)
(* Properties of the Linux agent's polling loop                            *)
(***************************************************************************)
\* C16: the auth events of a cycle whose submission failed are dropped: no
\* payload built in a later cycle holds an event made from a raw line whose
\* event was in a payload that could not be submitted.
C16_FailedCycleIsDropped ==
    \A i \in 1..Len(auth_events) : auth_events[i].raw \notin failed_raw

(***************************************************************************)
(* Properties of handle_metric under a metric near its threshold           *)
(***************************************************************************)
IsHigh(e, th) == e.value >= th

\* the values lie within METRIC_DELTA_RESEND of the threshold and each is on
\* the other side of it than the one before
Oscillates(vals, th) ==
    /\ Len(vals) >= 2
    /\ \A i \in 1..Len(vals) : Abs(vals[i].value - th) < METRIC_DELTA_RESEND
    /\ \A i \in 2..Len(vals) : IsHigh(vals[i], th) # IsHigh(vals[i - 1], th)

\* the first evaluation at or above the threshold (0 if there is none)
FirstCrossing(vals, th) ==
    LET hi == {i \in 1..Len(vals) : IsHigh(vals[i], th)}
    IN  IF hi = {} THEN 0 ELSE Min(hi)

\* the evaluations from the i-th on that emitted an alert
AlertsFrom(vals, i) == {j \in i..Len(vals) : vals[j].emit # ""}

\* the value of the last critical alert among the first i evaluations
LastAlerted(vals, i) ==
    LET al == {j \in 1..i : vals[j].emit \in {"high on", "still high"}}
    IN  vals[CHOOSE j \in al : \A l \in al : l <= j].value

\* C17 as stated: when the values of a pair alternate between just below and
\* just above the threshold, the evaluations from the first crossing on are
\* more than the alerts they emitted.
C17_OscillationEmitsFewerAlerts ==
    \A h \in Hosts, k \in Kinds :
        LET vals == PairEvals(h, k)
            fc   == FirstCrossing(vals, Threshold(k))
        IN  (Oscillates(vals, Threshold(k)) /\ fc > 0 /\ fc < Len(vals))
                => Cardinality(AlertsFrom(vals, fc)) < Len(vals) - fc + 1

\* the body of the amended C17 for one pair's evaluations and stored alerts
SilentOnlyWithoutCrossing(vals, ev, th) ==
    /\ \A i \in 2..Len(vals) :
          ( /\ IsHigh(vals[i], th) = IsHigh(vals[i - 1], th)
            /\ IsHigh(vals[i], th) =>
                  Abs(vals[i].value - LastAlerted(vals, i - 1)) < METRIC_DELTA_RESEND )
          => vals[i].emit = ""
    /\ Len(ev) = Cardinality(AlertsFrom(vals, 1))
    /\ (Oscillates(vals, th) /\ FirstCrossing(vals, th) > 0)
          => Cardinality(AlertsFrom(vals, FirstCrossing(vals, th)))
                = Len(vals) - FirstCrossing(vals, th) + 1

\* C17, amended: the filter bounds the alerts of a metric that stays on one
\* side of the threshold, not of one that crosses it: an evaluation emits no
\* alert when its value is on the same side of the threshold as the value
\* before it and, if at or above the threshold, less than METRIC_DELTA_RESEND
\* away from the last alerted value; no evaluation emits more than one alert;
\* and when the values alternate between just below and just above the
\* threshold, every evaluation from the first crossing on emits an alert.
C17_SilentOnlyWithoutCrossing ==
    \A h \in Hosts, k \in Kinds :
        SilentOnlyWithoutCrossing(PairEvals(h, k), PairEvents(h, k), Threshold(k))

\* cpu went 78, 82, 78, 82, 78: four evaluations from the first crossing on,
\* four alerts; and mem stayed high within the resend delta without an alert
C17_Witness ==
    /\ ValuesOf(PairEvals("h1", "cpu")) = <<78, 82, 78, 82, 78>>
    /\ Len(PairEvents("h1", "cpu")) = 4
    /\ ValuesOf(PairEvals("h1", "mem")) = <<84, 85, 84, 85, 84>>
    /\ Len(PairEvents("h1", "mem")) = 1

(***************************************************************************)
(* Properties of the identity memory                                       *)
(***************************************************************************)
\* this step appends one event to the window's list
EmitsEvent == Len(auth_events') = Len(auth_events) + 1
NewEvent == auth_events'[Len(auth_events')]

\* this step of the sshd loop emits a login record, successful or failed
EmitsLogin ==
    /\ apc = "ssh"
    /\ EmitsEvent
    /\ NewEvent.type \in {"successful_login", "failed_login"}

\* C18: a login record, successful or failed, overwrites the identity memory
\* field by field: the username is replaced if and only if the record
\* carries one, the source IP if and only if the record carries one, each
\* independently of the other; a field the record lacks keeps its value.
C18_LoginOverwritesFieldwise ==
    [][EmitsLogin =>
          /\ LAST_AUTH_USERNAME' = IF NewEvent.username # NoStr THEN NewEvent.username
                                    ELSE LAST_AUTH_USERNAME
          /\ LAST_AUTH_IP' = IF NewEvent.src_ip # NoStr THEN NewEvent.src_ip
                              ELSE LAST_AUTH_IP]_vars

\* after alice's password login from 10.0.0.5, a publickey login record with
\* the IP 10.0.0.7 and no username has been processed: the remembered IP is
\* the new one, the remembered username still alice
C18_Witness ==
    /\ Len(auth_events) = 2
    /\ auth_events[1].username = "alice"
    /\ auth_events[1].src_ip = "10.0.0.5"
    /\ auth_events[2].type = "successful_login"
    /\ auth_events[2].username = NoStr
    /\ auth_events[2].src_ip = "10.0.0.7"
    /\ LAST_AUTH_USERNAME = "alice"
    /\ LAST_AUTH_IP = "10.0.0.7"

\* C19: only a login record writes the identity memory: a step that handles
\* a logout record of either source, an irrelevant line or a line met before,
\* and the steps between two windows, leave both fields as they are; a field
\* that is set is never cleared.
C19_IdentityOnlyWrittenByLogin ==
    [][/\ ~EmitsLogin =>
            /\ LAST_AUTH_USERNAME' = LAST_AUTH_USERNAME
            /\ LAST_AUTH_IP' = LAST_AUTH_IP
       /\ LAST_AUTH_USERNAME # NoStr => LAST_AUTH_USERNAME' # NoStr
       /\ LAST_AUTH_IP # NoStr => LAST_AUTH_IP' # NoStr]_vars

\* the second window held no login: it processed a logout line of sshd and
\* the same line once more, and the identity of the first window is still
\* remembered
C19_Witness ==
    /\ nwin = 2
    /\ apc = "ret"
    /\ hist = <<[username |-> "alice", src_ip |-> "10.0.0.5"]>>
    /\ Len(ssh_lines) = 2
    /\ ssh_lines[1] = ssh_lines[2]
    /\ ssh_lines[1][1] = "t5"
    /\ Len(auth_events) = 1
    /\ LAST_AUTH_USERNAME = "alice"
    /\ LAST_AUTH_IP = "10.0.0.5"

\* what the lines of the catalogues say: t4 and t5 are session-closed lines
\* of sshd
ReportsSshdLogout(line) == line[1] \in {"t4", "t5"}

\* the sshd loop takes up a logout line not met before in this window
TakesSshdLogout ==
    /\ apc = "ssh"
    /\ lineIx <= Len(ssh_lines)
    /\ ssh_lines[lineIx] \notin seen_raw
    /\ ReportsSshdLogout(ssh_lines[lineIx])

\* the session-manager loop takes up a logout line not met before in this
\* window, of a session not yet reported in this window
TakesLogindLogout ==
    /\ apc = "logind"
    /\ lineIx <= Len(logind_lines)
    /\ logind_lines[lineIx] \notin seen_raw
    /\ ReportsLogout(logind_lines[lineIx])
    /\ ReportedSession(logind_lines[lineIx]) \notin seen_sessions

\* C20: every logout record that survives the whole-line memory, the
\* per-session memory and the cross-source suppression yields exactly one
\* logout event carrying its raw line, also when neither the record nor the
\* identity memory supplies a username or a source IP: the event is then
\* emitted with both fields absent.
C20_LogoutAlwaysEmitted ==
    [][/\ TakesSshdLogout =>
            /\ EmitsEvent
            /\ SubSeq(auth_events', 1, Len(auth_events)) = auth_events
            /\ NewEvent.type = "logout"
            /\ NewEvent.raw = ssh_lines[lineIx]
            /\ (ssh_lines[lineIx][1] = "t5" /\ LAST_AUTH_USERNAME = NoStr) =>
                    NewEvent.username = NoStr
            /\ (ssh_lines[lineIx][1] = "t5" /\ LAST_AUTH_IP = NoStr) =>
                    NewEvent.src_ip = NoStr
       /\ TakesLogindLogout =>
            /\ EmitsEvent
            /\ SubSeq(auth_events', 1, Len(auth_events)) = auth_events
            /\ NewEvent.type = "logout"
            /\ NewEvent.raw = logind_lines[lineIx]
            /\ NewEvent.username = LAST_AUTH_USERNAME
            /\ NewEvent.src_ip = LAST_AUTH_IP]_vars

\* before any login was ever seen, the second window's session manager
\* reported a logout: the event is there, without username and without IP
C20_Witness ==
    /\ nwin = 2
    /\ apc = "ret"
    /\ LAST_AUTH_USERNAME = NoStr
    /\ LAST_AUTH_IP = NoStr
    /\ Len(logind_lines) = 1
    /\ ReportsLogout(logind_lines[1])
    /\ Len(auth_events) = 1
    /\ auth_events[1].type = "logout"
    /\ auth_events[1].username = NoStr
    /\ auth_events[1].src_ip = NoStr
    /\ auth_events[1].raw = logind_lines[1]

(***************************************************************************)
(* Failing journal sources                                                 *)
(***************************************************************************)
\* what a source that answers reports for the window; nothing when it is down
Answers(src) ==
    IF src \in down THEN <<>>
    ELSE LET sel == SelectSeq(journal, LAMBDA e : e.src = src /\ e.t >= last_checked_time)
         IN  [i \in 1..Len(sel) |-> sel[i].line]

StartsWindow == apc = "idle" /\ apc' = "ssh"

\* at the end of the window the events are those of the lines of the sources
\* that answered (every line of SourcesCatalogue is a login or a logout)
AnsweredLinesReported ==
    apc = "ret" =>
        {auth_events[i].raw : i \in 1..Len(auth_events)} =
            UNION {Range(Answers(src)) : src \in {"ssh", "sshd", "logind"}}

\* C21: a source whose query fails counts as empty for the window: the call
\* goes on, its line lists hold exactly the lines of the sources that
\* answered, their events are produced, and the identity memory is not
\* touched by the failed query.
C21_FailedSourceIsEmpty ==
    [][/\ StartsWindow =>
            /\ ssh_lines' = Answers("ssh") \o Answers("sshd")
            /\ logind_lines' = Answers("logind")
            /\ UNCHANGED <<LAST_AUTH_USERNAME, LAST_AUTH_IP>>
       /\ AnsweredLinesReported']_vars

\* the ssh unit failed and the window still reports the sshd unit's line
C21_Witness ==
    /\ apc = "ret"
    /\ down = {"ssh"}
    /\ \E i \in 1..Len(journal) : journal[i].src = "ssh" /\ journal[i].t >= last_checked_time
    /\ \E i \in 1..Len(auth_events) : auth_events[i].raw[1] = "t2"

(***************************************************************************)
(* Classification priority                                                 *)
(***************************************************************************)
\* which markers the line was made of
HasPhrase(T) == \E i \in 1..Len(msg) : msg[i] \in T
FailedMarked == HasPhrase({<<"Failed", "password">>, <<"Invalid", "user">>})
AcceptedMarked == HasPhrase({<<"Accepted", "password">>, <<"Accepted", "publickey">>})
\* the termination markers of agent_linux and of win11agent
EndMarkedLinux ==
    HasPhrase({<<"session", "closed">>, <<"Disconnected", "from">>, <<"Received", "disconnect">>})
EndMarkedWin ==
    HasPhrase({<<"session", "closed">>, <<"Disconnected", "from">>, <<"Connection", "closed">>})

LeavesAuthLoop(w) == pc[w] = "tail" /\ pc'[w] # "tail" /\ req[w].shape = "meta"

ClaimedLevel(etype) ==
    IF etype = "successful_login" THEN "critical"
    ELSE IF etype \in {"failed_login", "logout"} THEN "warning"
    ELSE "info"

ClaimedTag(ip) == IF ip \in LOCAL_TI THEN "(Local)" ELSE "(TI)"

\* C23: every auth event of a submission gets exactly one alert record, its
\* level given by the event type and its tag by the trusted list.
C23_EachAuthEventOneAlert ==
    [][\A w \in Workers :
        LeavesAuthLoop(w) =>
            LET evs == SelectSeq(req[w].auth, LAMBDA e : e.wf)
                old == Len(tx[w].events)
            IN  /\ pc'[w] = "commit"
                /\ Len(tx'[w].events) = old + Len(evs)
                /\ \A i \in 1..Len(evs) :
                        /\ tx'[w].events[old + i].src = "auth"
                        /\ tx'[w].events[old + i].level = ClaimedLevel(evs[i].type)
                        /\ tx'[w].events[old + i].tag = ClaimedTag(evs[i].src_ip)]_vars

(***************************************************************************)
(* A metric value that is no number                                        *)
(***************************************************************************)
\* worker w finishes the evaluation of a metric whose payload field is bad
DecidesBadValue(w) ==
    /\ pc[w] = "hm_decide"
    /\ pc'[w] # "hm_decide"
    /\ \/ kindIx[w] = 1 /\ ~req[w].cpu.num
       \/ kindIx[w] = 2 /\ ~req[w].mem.num
       \/ kindIx[w] = 3 /\ ~req[w].disk.num

\* C24: a metric value that is no number is skipped: its evaluation inserts
\* no alert and leaves the pair's metric_state row as it was.
C24_BadMetricIsSkipped ==
    [][\A w \in Workers :
        DecidesBadValue(w) =>
            /\ tx'[w].events = tx[w].events
            /\ tx'[w].state = tx[w].state]_vars

(***************************************************************************)
(* Unauthorized submissions                                                *)
(***************************************************************************)
\* a request was received and no worker started to serve it
Rejects == nreq' = nreq + 1 /\ pc' = pc

\* C25: a submission without the right key is answered 401 and nothing is
\* written: no worker ever serves such a payload, and the step that rejects
\* it leaves the tables, the open transactions and the write lock alone.
C25_UnauthorizedHasNoEffect ==
    [][/\ \A w \in Workers : pc'[w] # "idle" => req'[w].key_ok
       /\ Rejects => UNCHANGED <<metrics, metric_state, events, tx, dbLock, req>>]_vars

\* two submissions arrived, both were rejected, the tables are empty
C25_Witness ==
    /\ nreq = 2
    /\ \A w \in Workers : pc[w] = "idle" /\ req[w] = NoPayload
    /\ metrics = <<>>
    /\ events = <<>>
    /\ DOMAIN metric_state = {}

(***************************************************************************)
(* The two payload shapes                                                  *)
(***************************************************************************)
\* the three evaluations of the k-th committed submission
EvalsOf(k) == SubSeq(evals, 3 * k - 2, 3 * k)

\* the k-th committed submission stored one snapshot and evaluated cpu, mem
\* and disk of the snapshot's host with the snapshot's values
OneSnapshotThreeEvaluations(k) ==
    LET ev == EvalsOf(k)
        sn == metrics[k]
    IN  /\ \A i \in 1..3 : ev[i].host = sn.host /\ ev[i].shape = ev[1].shape
        /\ ev[1].kind = "cpu"  /\ ev[1].value = sn.cpu
        /\ ev[2].kind = "mem"  /\ ev[2].value = sn.mem
        /\ ev[3].kind = "disk" /\ ev[3].value = sn.disk

C27_LoopSurvivesFailures ==
    /\ [](apc # "dead")
    /\ <>(nwin = MaxWindows /\ apc = "idle")
    /\ [][nwin' # nwin => apc = "idle"]_vars

\* the submission of the first pass failed and the second pass is running
C27_Witness ==
    /\ failed_raw # {}
    /\ nwin = 2
    /\ apc = "ssh"

(***************************************************************************)
(* Lines without a marker                                                  *)
(***************************************************************************)
\* the sshd loop takes "Server listening on 0.0.0.0 port 22"
TakesUnmarkedSshLine ==
    /\ apc = "ssh"
    /\ lineIx <= Len(ssh_lines)
    /\ lineIx' = lineIx + 1
    /\ ssh_lines[lineIx][1] = "t6"

\* the logind loop takes "New session 43 of user alice."
TakesUnmarkedLogindLine ==
    /\ apc = "logind"
    /\ lineIx <= Len(logind_lines)
    /\ lineIx' = lineIx + 1
    /\ logind_lines[lineIx][1] = "t9"

ObservedPairs == {<<evals[i].host, evals[i].kind>> : i \in 1..Len(evals)}

\* C29: metric_state has a row for exactly the (host, kind) pairs that a
\* committed submission has evaluated: the first evaluation of a pair
\* creates its row, whatever the value, later ones keep the one row, and no
\* step removes a row.
C29_OneRowPerObservedPair ==
    [][/\ (DOMAIN metric_state) \subseteq (DOMAIN metric_state')
       /\ DOMAIN metric_state' = ObservedPairs']_vars

\* host h1 was evaluated twice and h2 never: three rows, all of h1, the disk
\* row created by a value below the threshold
C29_Witness ==
    /\ Len(metrics) = 2
    /\ \A i \in 1..Len(metrics) : metrics[i].host = "h1"
    /\ DOMAIN metric_state = {"h1"} \X Kinds
    /\ metric_state[<<"h1", "disk">>].status = "normal"
    /\ metric_state[<<"h1", "disk">>].last_value = Some(50)

(***************************************************************************)
(* Record ids of the Windows event log                                     *)
(***************************************************************************)
NoRepeat(ids) == \A i, j \in 1..Len(ids) : ids[i] = ids[j] => i = j

\* the record ids of the events built by the step
NewIds == {emitted_ids'[i] : i \in (Len(emitted_ids) + 1)..Len(emitted_ids')}

\* C30: over the life of the agent no RecordId gives more than one auth
\* event: a poll builds events only from records whose id is not yet in
\* SEEN_OPENSSH_RECORDS, whatever the query window returns again, and ids
\* are never taken out of that set.
C30_RecordIdYieldsOneEvent ==
    [][/\ SEEN_OPENSSH_RECORDS \subseteq SEEN_OPENSSH_RECORDS'
       /\ NewIds \cap SEEN_OPENSSH_RECORDS = {}
       /\ NewIds \subseteq SEEN_OPENSSH_RECORDS'
       /\ NoRepeat(emitted_ids')]_vars

\* record 1 was written in the second the first poll started, so the second
\* poll's window (since LAST_CHECKED_UTC = 0) returned it again next to the
\* new record 2: it gave its one event in the first poll and none now
C30_Witness ==
    /\ wpc = "post"
    /\ poll_start = 1
    /\ LAST_CHECKED_UTC = 0
    /\ Len(event_log) = 2
    /\ event_log[1].rid = 1 /\ event_log[1].t = 0 /\ event_log[1].message[1] = "m1"
    /\ event_log[2].rid = 2 /\ event_log[2].t = 1
    /\ SEEN_OPENSSH_RECORDS = {1, 2}
    /\ emitted_ids = <<1>>
    /\ win_events = <<>>

(***************************************************************************)
(* One submission, one commit                                              *)
(***************************************************************************)
\* worker w's request ends without having reached con.commit()
FailsBeforeCommit(w) == pc[w] \notin {"idle", "commit"} /\ pc'[w] = "idle"

\* worker w's request passes con.commit()
Commits(w) == pc[w] = "commit" /\ pc'[w] = "idle"

\* the committed alerts and the committed row of a pair tell the same story:
\* the row is high exactly when the pair's last metric alert is a critical one
AlertsMatchState ==
    \A h \in Hosts, k \in Kinds :
        LET al == PairEvents(h, k) IN
        /\ al # <<>> => <<h, k>> \in DOMAIN metric_state
        /\ <<h, k>> \in DOMAIN metric_state =>
                (metric_state[<<h, k>>].status = "high"
                    <=> (al # <<>> /\ al[Len(al)].level = "critical"))

\* C31: the snapshot, the metric_state writes and the alerts of a submission
\* reach the tables in one step, its commit; a request that ends before its
\* commit leaves the tables as they were; so the stored alerts and the
\* stored state of a pair never disagree.
C31_SubmissionIsOneUnit ==
    [][/\ \A w \in Workers :
            FailsBeforeCommit(w) => UNCHANGED <<metrics, events, metric_state>>
       /\ (metrics' # metrics \/ events' # events \/ metric_state' # metric_state) =>
            \E w \in Workers :
                /\ Commits(w)
                /\ metrics' = metrics \o tx[w].metrics
                /\ Len(tx[w].metrics) = 1
                /\ events' = events \o tx[w].events
                /\ \A p \in DOMAIN tx[w].state : metric_state'[p] = tx[w].state[p]
       /\ AlertsMatchState']_vars

\* the only request crossed the cpu threshold and failed in its auth event
\* loop: neither the snapshot, nor the alert, nor the row is stored
C31_Witness ==
    /\ nreq = 1
    /\ \E w \in Workers :
            /\ pc[w] = "idle"
            /\ req[w].key_ok
            /\ ~AllWellFormed(req[w].auth)
            /\ F(req[w].cpu) >= CPU_TH
            /\ tx[w] = FreshTx
    /\ metrics = <<>>
    /\ events = <<>>
    /\ DOMAIN metric_state = {}

(***************************************************************************)
(* Status and last_value of a row                                          *)
(***************************************************************************)
\* C32: a stored row that is high has a last_value, at or above the
\* threshold; a stored row that is normal has a last_value below the
\* threshold; and no evaluation read a high row without last_value.
C32_StatusMatchesLastValue ==
    /\ \A p \in DOMAIN metric_state :
            /\ ~metric_state[p].last_value.isNone
            /\ metric_state[p].status = "high" =>
                    metric_state[p].last_value.v >= Threshold(p[2])
            /\ metric_state[p].status = "normal" =>
                    metric_state[p].last_value.v < Threshold(p[2])
    /\ \A i \in 1..Len(evals) :
            evals[i].prev.status = "high" => ~evals[i].prev.last_value.isNone

(***************************************************************************)
(* What an evaluation touches                                              *)
(***************************************************************************)
\* worker w finishes the handle_metric call it is in
Decides(w) == pc[w] = "hm_decide" /\ pc'[w] # "hm_decide"

\* the evaluations of the same pair before the i-th committed evaluation
EarlierOfPair(i) ==
    {j \in 1..(i - 1) : evals[j].host = evals[i].host /\ evals[j].kind = evals[i].kind}

\* what the evaluation e left in the pair's row
LeftBy(e) ==
    IF e.set = <<>> THEN e.prev
    ELSE [status |-> e.set[1].status, last_value |-> Bind(e.set[1].last_value)]

\* every evaluation read what the previous evaluation of its own pair left,
\* whatever was evaluated in between for other kinds and other hosts
ReadsOwnPairOnly ==
    \A i \in 1..Len(evals) :
        LET before == EarlierOfPair(i) IN
        IF before = {} THEN evals[i].prev = [status |-> "normal", last_value |-> NoneVal]
        ELSE evals[i].prev =
                LeftBy(evals[CHOOSE j \in before : \A k \in before : k <= j])

\* C33: an evaluation writes no row but the one of its own (host, kind) and
\* inserts alerts only for its own host and kind; and what it reads is what
\* the last evaluation of the same pair left, so the alerts of a pair do not
\* depend on the other kinds' values or on other hosts' submissions.
C33_EvaluationTouchesOwnPair ==
    [][/\ \A w \in Workers :
            Decides(w) =>
                LET own == <<req[w].host, KindSeq[kindIx[w]]>> IN
                /\ \A p \in (DOMAIN tx'[w].state) \ {own} :
                        p \in DOMAIN tx[w].state /\ tx'[w].state[p] = tx[w].state[p]
                /\ \A i \in (Len(tx[w].events) + 1)..Len(tx'[w].events) :
                        /\ tx'[w].events[i].host = own[1]
                        /\ tx'[w].events[i].kind = Upper(own[2])
                /\ UNCHANGED <<metric_state, events>>
       /\ ReadsOwnPairOnly']_vars

\* h1 crossed with cpu 85, then h2 was evaluated, then h1 sent 85 again: the
\* third submission read h1's high row and stayed silent on cpu
C33_Witness ==
    /\ Len(metrics) = 3
    /\ metrics[1].host = "h1" /\ metrics[2].host = "h2" /\ metrics[3].host = "h1"
    /\ evals[1].emit = "high on"
    /\ evals[4].emit = "high on"
    /\ evals[7].kind = "cpu"
    /\ evals[7].value = 85
    /\ evals[7].prev = [status |-> "high", last_value |-> Some(85)]
    /\ evals[7].emit = ""

====
